---------------------------- MODULE Spec2Model ----------------------------
(***************************************************************************)
(* A model of gorilla/rpc (v2): the service registry (map.go), the server  *)
(* with its hook slots and its request pipeline (server.go), and the       *)
(* codecs the pipeline is driven with (the test codecs, the JSON-RPC 2.0   *)
(* codec).                                                                 *)
(*                                                                         *)
(* Strings are TLA+ strings.  A Go identifier whose first character the    *)
(* code inspects (a type name, a method name) is a pair <<first, rest>>,   *)
(* so that isExported and toLowerCase act on the first character as the    *)
(* code does; Str glues the pair back into the string.                     *)
(***************************************************************************)
EXTENDS Naturals, Integers, Sequences, FiniteSets, TLC

VARIABLES
    methods,        \* serviceMap.methods : key -> *serviceMethod
    aliases,        \* serviceMap.aliases : alias key -> target key
    nextId,         \* number of service objects allocated so far (pointer identity)
    codecs,         \* Server.codecs : lower-cased content type -> Codec
    interceptFunc,  \* Server.interceptFunc (Nil when unset)
    beforeFunc,     \* Server.beforeFunc (Nil when unset)
    afterFunc,      \* Server.afterFunc (Nil when unset)
    validateFunc,   \* Server.validateFunc (Nil: the zero reflect.Value, not IsValid)
    ret,            \* what the last call on the server was, and what it returned
    mutex,          \* serviceMap.mutex : Free, or the goroutine that holds it
    procs           \* the goroutines calling into the server : where each one is

regVars == <<methods, aliases, nextId>>
hookVars == <<interceptFunc, beforeFunc, afterFunc, validateFunc>>
srvVars == <<codecs, interceptFunc, beforeFunc, afterFunc, validateFunc>>
concVars == <<mutex, procs>>
vars == <<methods, aliases, nextId, codecs, interceptFunc, beforeFunc, afterFunc, validateFunc, ret,
          mutex, procs>>

\* The nil pointer / nil interface value.
Nil == [nil |-> TRUE]

\* errors.New / fmt.Errorf: an error value carrying its text.
Errorf(msg) == [msg |-> msg]

\* Successful service allocations the model follows (register, registerMethod).
MaxAlloc == 2
\* Aliases the model lets the alias map hold.
MaxAliases == 2

-----------------------------------------------------------------------------
(* Identifiers and the character tests of map.go *)

Str(id) == id[1] \o id[2]

\* The first characters of the identifiers of the model that unicode.IsUpper
\* accepts.  "U+00C9" stands for the one character E-acute.
UpperChars == {"S", "M", "R", "H", "F", "U+00C9"}

\* unicode.IsUpper on the first rune of name ("" decodes to RuneError, not upper).
isExported(id) == id[1] \in UpperChars

\* Characters >= utf8.RuneSelf occurring in the identifiers of the model.
NonASCIIChars == {"U+00C9"}

isValidRouteName(id) == id[1] \notin NonASCIIChars

ToLowerChar(c) ==
    CASE c = "S" -> "s"
      [] c = "M" -> "m"
      [] c = "R" -> "r"
      [] c = "H" -> "h"
      [] c = "F" -> "f"
      [] OTHER -> c

\* toLowerCase: the error and the string returned; only the first character is
\* lowered.
toLowerCase(id) ==
    IF ~isValidRouteName(id) THEN [err |-> Errorf("invalid route name " \o Str(id)), s |-> ""]
    ELSE IF Str(id) = "" THEN [err |-> Nil, s |-> ""]
    ELSE [err |-> Nil, s |-> ToLowerChar(id[1]) \o id[2]]


-----------------------------------------------------------------------------
(* The receivers handed to the registration calls, as reflection sees them *)

\* What register and registerMethod read of a reflect.Method.
GoMethod(name, numIn, in1, argsPtr, argsExported, replyPtr, replyExported, numOut, out0) ==
    [Name |-> name, PkgPath |-> "", NumIn |-> numIn, In1 |-> in1,
     ArgsPtr |-> argsPtr, ArgsExported |-> argsExported,
     ReplyPtr |-> replyPtr, ReplyExported |-> replyExported,
     NumOut |-> numOut, Out0 |-> out0]

\* func (t *Service1) Multiply(r *http.Request, req *Service1Request, res *Service1Response) error
Multiply ==
    GoMethod(<<"M", "ultiply">>, 4, "*http.Request", TRUE, TRUE, TRUE, TRUE, 1, "error")

\* func (t *Service1) ResponseError(r *http.Request, req *Service1Request, res *Service1Response) error
ResponseError ==
    GoMethod(<<"R", "esponseError">>, 4, "*http.Request", TRUE, TRUE, TRUE, TRUE, 1, "error")

\* A method of the wrong shape: func (t *T) Helper(req *Service1Request) error
Helper ==
    GoMethod(<<"H", "elper">>, 2, "*Service1Request", TRUE, TRUE, TRUE, TRUE, 1, "error")

\* A method of the right shape whose name is not ASCII:
\* func (t *T) <E-acute>cho(r *http.Request, req *Service1Request, res *Service1Response) error
Echo ==
    GoMethod(<<"U+00C9", "cho">>, 4, "*http.Request", TRUE, TRUE, TRUE, TRUE, 1, "error")

\* Receiver values: new(Service1), new(Service2), a value of an unexported
\* type with a method of the wrong shape, one of the right shape and one whose
\* name is no valid route name, and a value of an unnamed type (&struct{}{}),
\* whose reflect name is "".
Receivers == {"Service1", "Service2", "service3", "struct{}"}

TypeName(rcvr) ==
    CASE rcvr = "Service1" -> <<"S", "ervice1">>
      [] rcvr = "Service2" -> <<"S", "ervice2">>
      [] rcvr = "service3" -> <<"s", "ervice3">>
      [] rcvr = "struct{}" -> <<"", "">>

\* rcvrType.Method(i), i < NumMethod(): the exported methods, sorted by name.
TypeMethods(rcvr) ==
    CASE rcvr = "Service1" -> <<Multiply, ResponseError>>
      [] rcvr = "Service2" -> << >>
      [] rcvr = "service3" -> <<Helper, Multiply, Echo>>
      [] rcvr = "struct{}" -> << >>

\* rcvrType.MethodByName(name): the method, or Nil when there is none.
MethodByName(rcvr, name) ==
    LET ms == TypeMethods(rcvr)
        hit == {i \in 1..Len(ms) : Str(ms[i].Name) = name}
    IN  IF hit = {} THEN Nil ELSE ms[CHOOSE i \in hit : TRUE]

ArgsTypeName == "Service1Request"
ReplyTypeName == "Service1Response"

-----------------------------------------------------------------------------
(* serviceMap *)

\* &service{...}: id stands for the pointer's identity.
NewService(id, name, rcvr) == [id |-> id, name |-> name, rcvr |-> rcvr]

\* &serviceMethod{...}
NewServiceMethod(s, m) ==
    [service |-> s, method |-> Str(m.Name), argsType |-> ArgsTypeName, replyType |-> ReplyTypeName]

\* The shape contract, in the order register and registerMethod test it; "" when
\* the method passes, else the text of registerMethod's error.
ShapeError(m) ==
    IF m.PkgPath # "" THEN "rpc: service method PkgPath " \o m.PkgPath \o " is not empty"
    ELSE IF m.NumIn # 4 THEN "rpc: service method NumIn is not 4"
    ELSE IF m.In1 # "*http.Request" THEN "rpc: service method first arg must be an http Request Pointer"
    ELSE IF ~m.ArgsPtr \/ ~m.ArgsExported THEN "rpc: service method second arg must be an Pointer"
    ELSE IF ~m.ReplyPtr \/ ~m.ReplyExported THEN "rpc: service method third arg must be an Pointer"
    ELSE IF m.NumOut # 1 THEN "rpc: service method NumOut must be 1"
    ELSE IF m.Out0 # "error" THEN "rpc: service method typeof NumOut must be Error"
    ELSE ""

\* The key register files a method under.
MethodKey(serviceName, m) == serviceName \o "/" \o toLowerCase(m.Name).s

\* register's scan: the local map of the eligible methods, key -> *serviceMethod.
RECURSIVE ScanMethods(_, _, _)
ScanMethods(s, ms, i) ==
    IF i > Len(ms) THEN << >>
    ELSE LET m == ms[i]
             rest == ScanMethods(s, ms, i + 1)
         IN  IF ShapeError(m) # "" \/ toLowerCase(m.Name).err # Nil THEN rest
             ELSE (MethodKey(s.name, m) :> NewServiceMethod(s, m)) @@ rest

\* fmt.Errorf("rpc: service method already defined: %q", name)
AlreadyDefined(name) == Errorf("rpc: service method already defined: \"" \o name \o "\"")

\* A faulty insertion loop: it files every key of the call, replacing what a key
\* was bound to.
InsertAllOverwrite(ms, local, order, i) == [methods |-> local @@ ms, err |-> Nil]

\* A faulty insertion loop: all the keys of the call are filed, or none.
InsertAllOrNothing(ms, local, order, i) ==
    LET hit == {j \in DOMAIN order : order[j] \in DOMAIN ms}
    IN  IF hit = {} THEN [methods |-> local @@ ms, err |-> Nil]
        ELSE [methods |-> ms,
              err |-> AlreadyDefined(order[CHOOSE j \in hit : \A h \in hit : j <= h])]

\* register's insertion loop over the local map in the iteration order `order`:
\* it stops at the first key already present and leaves what it has inserted.
RECURSIVE InsertAll(_, _, _, _)
InsertAll(ms, local, order, i) ==
    IF i > Len(order) THEN [methods |-> ms, err |-> Nil]
    ELSE LET name == order[i]
         IN  IF name \in DOMAIN ms
             THEN [methods |-> ms, err |-> AlreadyDefined(name)]
             ELSE InsertAll((name :> local[name]) @@ ms, local, order, i + 1)

\* The orders a Go map iteration may visit the keys in.
Orders(keys) == {o \in [1..Cardinality(keys) -> keys] : \A k \in keys : \E i \in DOMAIN o : o[i] = k}

\* A faulty register: it empties the method map when it finds no eligible method.
registerResetsOnNoMethods(ms, id, rcvr, name, order) ==
    LET inferred == Str(TypeName(rcvr))
        s == NewService(id, IF name = "" THEN inferred ELSE name, rcvr)
        local == ScanMethods(s, TypeMethods(rcvr), 1)
    IN  IF name = "" /\ ~isExported(TypeName(rcvr))
        THEN [methods |-> ms, err |-> Errorf("rpc: type \"" \o inferred \o "\" is not exported")]
        ELSE IF DOMAIN local = {}
        THEN [methods |-> << >>,
              err |-> Errorf("rpc: \"" \o s.name \o "\" has no exported methods of suitable type")]
        ELSE InsertAll(ms, local, order, 1)

\* serviceMap.register(rcvr, name), the insertion loop visiting the local map in
\* `order`: the new method map and the error returned.
register(ms, id, rcvr, name, order) ==
    LET inferred == Str(TypeName(rcvr))
        s == NewService(id, IF name = "" THEN inferred ELSE name, rcvr)
        local == ScanMethods(s, TypeMethods(rcvr), 1)
    IN  IF name = "" /\ ~isExported(TypeName(rcvr))
        THEN [methods |-> ms, err |-> Errorf("rpc: type \"" \o inferred \o "\" is not exported")]
        ELSE IF s.name = ""
        THEN [methods |-> ms, err |-> Errorf("rpc: no service name for type \"*" \o inferred \o "\"")]
        ELSE IF DOMAIN local = {}
        THEN [methods |-> ms,
              err |-> Errorf("rpc: \"" \o s.name \o "\" has no exported methods of suitable type")]
        ELSE InsertAll(ms, local, order, 1)

\* The keys a register(rcvr, name) call contributes.
registerKeys(rcvr, name) ==
    DOMAIN ScanMethods(NewService(0, IF name = "" THEN Str(TypeName(rcvr)) ELSE name, rcvr),
                       TypeMethods(rcvr), 1)

\* A faulty registerMethod: the key is derived as register derives it.
registerMethodDerivedKey(ms, id, rcvr, name, methodName) ==
    LET s == NewService(id, Str(TypeName(rcvr)), rcvr)
        m == MethodByName(rcvr, methodName)
    IN  IF name = ""
        THEN [methods |-> ms, err |-> Errorf("rpc: service method name must not be empty")]
        ELSE IF m = Nil
        THEN [methods |-> ms, err |-> Errorf("rpc: service method not found: \"" \o methodName \o "\"")]
        ELSE IF ShapeError(m) # ""
        THEN [methods |-> ms, err |-> Errorf(ShapeError(m))]
        ELSE IF MethodKey(name, m) \in DOMAIN ms
        THEN [methods |-> ms, err |-> AlreadyDefined(name)]
        ELSE [methods |-> (MethodKey(name, m) :> NewServiceMethod(s, m)) @@ ms, err |-> Nil]

\* serviceMap.registerMethod(rcvr, name, methodName)
registerMethod(ms, id, rcvr, name, methodName) ==
    LET s == NewService(id, Str(TypeName(rcvr)), rcvr)
        m == MethodByName(rcvr, methodName)
    IN  IF name = ""
        THEN [methods |-> ms, err |-> Errorf("rpc: service method name must not be empty")]
        ELSE IF m = Nil
        THEN [methods |-> ms, err |-> Errorf("rpc: service method not found: \"" \o methodName \o "\"")]
        ELSE IF ShapeError(m) # ""
        THEN [methods |-> ms, err |-> Errorf(ShapeError(m))]
        ELSE IF name \in DOMAIN ms
        THEN [methods |-> ms, err |-> AlreadyDefined(name)]
        ELSE [methods |-> (name :> NewServiceMethod(s, m)) @@ ms, err |-> Nil]

\* The two checks registerAlias opens with, on what its two map reads gave:
\* `found` is the ok of m.methods[target], `taken` the ok of m.aliases[alias].
aliasCheck(found, taken, alias, target) ==
    IF ~found
    THEN Errorf("rpc: service method " \o target \o " for alias not found")
    ELSE IF taken
    THEN Errorf("rpc: service method alias " \o alias \o " already defined")
    ELSE Nil

\* serviceMap.registerAlias(alias, target)
registerAlias(ms, as, alias, target) ==
    LET err == aliasCheck(target \in DOMAIN ms, alias \in DOMAIN as, alias, target)
    IN  IF err # Nil
        THEN [aliases |-> as, err |-> err]
        ELSE [aliases |-> (alias :> target) @@ as, err |-> Nil]

\* A faulty get: the method map is consulted first, the alias map only for a
\* name that is no method key.
getMethodsFirst(ms, as, method) ==
    LET key == IF method \notin DOMAIN ms /\ method \in DOMAIN as THEN as[method] ELSE method
        serviceMethod == IF key \in DOMAIN ms THEN ms[key] ELSE Nil
    IN  IF serviceMethod = Nil
        THEN [service |-> Nil, serviceMethod |-> Nil,
              err |-> Errorf("rpc: can't find service method \"" \o key \o "\"")]
        ELSE [service |-> serviceMethod.service, serviceMethod |-> serviceMethod, err |-> Nil]

\* serviceMap.get(method): alias resolution (one step), then the method map.
get(ms, as, method) ==
    LET key == IF method \in DOMAIN as THEN as[method] ELSE method
        serviceMethod == IF key \in DOMAIN ms THEN ms[key] ELSE Nil
    IN  IF serviceMethod = Nil
        THEN [service |-> Nil, serviceMethod |-> Nil,
              err |-> Errorf("rpc: can't find service method \"" \o key \o "\"")]
        ELSE IF serviceMethod.service = Nil
        THEN [service |-> Nil, serviceMethod |-> Nil,
              err |-> Errorf("rpc: can't find service \"" \o key \o "\"")]
        ELSE [service |-> serviceMethod.service, serviceMethod |-> serviceMethod, err |-> Nil]

\* Server.HasMethod(method)
HasMethod(ms, as, method) == get(ms, as, method).err = Nil


-----------------------------------------------------------------------------
(* The registration surface of the server, one call at a time *)

\* The names the calls of the model are made with.
ServiceNameIds == {<<"F", "oo">>, <<"f", "oo">>}
ServiceNames == {""} \cup {Str(id) : id \in ServiceNameIds}
MethodNames == {"Multiply", "Helper", "Missing"}
KeyNames == {"", "Service1.Multiply"}
AliasNames == {"Service1.Multiply", "Service1/multiply"}
TargetNames == {"Service1/multiply", "Service1/responseError", "Service1.Multiply"}
LookupNames == AliasNames \cup TargetNames \cup {"Foo.Multiply"}

\* The goroutines that call into one server at the same time.
Procs == {"p1", "p2"}
\* sync.Mutex, unlocked.
Free == "free"
\* A goroutine that is not inside a call.
Idle == [pc |-> "idle"]

\* NewServer(): both maps empty.
RegistryInit ==
    /\ methods = << >>
    /\ aliases = << >>
    /\ nextId = 0

\* Server.RegisterService(receiver, name)
RegisterService(rcvr, name) ==
    /\ nextId < MaxAlloc
    /\ \E order \in Orders(registerKeys(rcvr, name)) :
          LET r == register(methods, nextId + 1, rcvr, name, order)
          IN  /\ methods' = r.methods
              /\ nextId' = IF r.methods = methods THEN nextId ELSE nextId + 1
              /\ ret' = [op |-> "RegisterService", rcvr |-> rcvr, name |-> name,
                         order |-> order, err |-> r.err]
    /\ UNCHANGED <<aliases, srvVars, concVars>>

\* Server.RegisterMethod(receiver, name, method)
RegisterMethod(rcvr, name, methodName) ==
    /\ nextId < MaxAlloc
    /\ LET r == registerMethod(methods, nextId + 1, rcvr, name, methodName)
       IN  /\ methods' = r.methods
           /\ nextId' = IF r.methods = methods THEN nextId ELSE nextId + 1
           /\ ret' = [op |-> "RegisterMethod", rcvr |-> rcvr, name |-> name,
                      method |-> methodName, err |-> r.err]
    /\ UNCHANGED <<aliases, srvVars, concVars>>

\* Server.RegisterAlias(alias, target)
RegisterAlias(alias, target) ==
    /\ Cardinality(DOMAIN aliases) < MaxAliases
    /\ LET r == registerAlias(methods, aliases, alias, target)
       IN  /\ aliases' = r.aliases
           /\ ret' = [op |-> "RegisterAlias", alias |-> alias, target |-> target, err |-> r.err]
    /\ UNCHANGED <<methods, nextId, srvVars, concVars>>

\* A call of Server.HasMethod(method)
CallHasMethod(method) ==
    /\ ret' = [op |-> "HasMethod", method |-> method, has |-> HasMethod(methods, aliases, method)]
    /\ UNCHANGED <<regVars, srvVars, concVars>>

\* NewServer()
Init ==
    /\ RegistryInit
    /\ codecs = << >>
    /\ interceptFunc = Nil
    /\ beforeFunc = Nil
    /\ afterFunc = Nil
    /\ validateFunc = Nil
    /\ ret = [op |-> "NewServer"]
    /\ mutex = Free
    /\ procs = [p \in Procs |-> Idle]

Next ==
    \/ \E rcvr \in Receivers, name \in ServiceNames : RegisterService(rcvr, name)
    \/ \E rcvr \in Receivers, name \in KeyNames, m \in MethodNames : RegisterMethod(rcvr, name, m)
    \/ \E alias \in AliasNames, target \in TargetNames : RegisterAlias(alias, target)
    \/ \E method \in LookupNames : CallHasMethod(method)

Spec == Init /\ [][Next]_vars


-----------------------------------------------------------------------------
(* HTTP requests, bodies and the response writer *)

\* A request body is JSON text.  NoBody: Request.Body == nil.  Drained: a body
\* that has been read to its end (or closed).  Garbage: text that is not JSON.
\* Object(o): a JSON object, o its members.
NoBody == Nil
Drained == [eof |-> TRUE]
Garbage == [valid |-> FALSE]
Object(o) == [valid |-> TRUE, obj |-> o]
IsObject(b) == "valid" \in DOMAIN b /\ b.valid
\* A JSON object with the members o and one more member, "method", whose value
\* is a number: well-formed JSON that does not fit ServerRequest.
Mistyped(o) == [valid |-> TRUE, obj |-> o, mistyped |-> "method"]
FitsServerRequest(b) == IsObject(b) /\ "mistyped" \notin DOMAIN b

\* The requests a call of ServeHTTP may involve: "r" is the one the server is
\* handed, "r2" the one the intercept hook of the tests returns
\* (http.NewRequest("POST", "mocked/request", {"A": 2, "B":5})), "r3" one more
\* request a hook may hold.  The heap maps each to its fields.
HTTPRequest(method, contentType, body) ==
    [Method |-> method, ContentType |-> contentType, Body |-> body]

R2 == HTTPRequest("POST", <<"">>, Object([A |-> 2, B |-> 5]))
R3 == HTTPRequest("POST", <<"">>, NoBody)

Heap(r) == ("r" :> r) @@ ("r2" :> R2) @@ ("r3" :> R3)

\* http.ResponseWriter: the status line (0: not written), the header map, and
\* what has been written to the body.
NewResponseWriter == [Status |-> 0, Header |-> << >>, Body |-> << >>]

\* http.Header.Set files the value under the canonical form of the key.
CanonicalHeaderKey(key) ==
    IF key = "x-content-type-options" THEN "X-Content-Type-Options" ELSE key

HeaderSet(w, key, value) ==
    [w EXCEPT !.Header = (CanonicalHeaderKey(key) :> value) @@ w.Header]

WriteHeader(w, status) == IF w.Status = 0 THEN [w EXCEPT !.Status = status] ELSE w

Write(w, chunk) ==
    [w EXCEPT !.Status = IF w.Status = 0 THEN 200 ELSE w.Status,
              !.Body = Append(w.Body, chunk)]

\* rpc.WriteError(w, status, msg): the plain-text error of the pipeline.
WriteError(w, status, msg) ==
    Write(WriteHeader(HeaderSet(w, "Content-Type", "text/plain; charset=utf-8"), status),
          [text |-> msg])

-----------------------------------------------------------------------------
(* Codecs *)

\* MockCodec{A, B}, MockCodecJson{} (the server's tests) and the JSON-RPC 2.0
\* codec.
MockCodec(a, b) == [codec |-> "MockCodec", A |-> a, B |-> b]
MockCodecJson == [codec |-> "MockCodecJson"]
Json2Codec == [codec |-> "json2"]

Version == "2.0"

\* json2's *Error
JsonError(code, message, data) == [Code |-> code, Message |-> message, Data |-> data]
IsJsonError(e) == "Code" \in DOMAIN e

\* err.Error()
ErrorText(e) == IF IsJsonError(e) THEN e.Message ELSE e.msg

\* Member k of a JSON object as a Go int field (absent: the zero value).
IntMember(o, k) == IF k \in DOMAIN o THEN o[k] ELSE 0
\* Member k as a Go string field.
StringMember(o, k) == IF k \in DOMAIN o THEN o[k] ELSE ""
\* The JSON values of the members "params" and "id".
JNull == [null |-> TRUE]
JNum(n) == [num |-> n]
JStr(str) == [str |-> str]
JObj(o) == [obj |-> o]
\* Member k as a *json.RawMessage field: nil when absent or null.
RawMember(o, k) == IF k \in DOMAIN o /\ o[k] # JNull THEN [raw |-> o[k]] ELSE Nil

MockCodecRequest(a, b) == [kind |-> "Mock", A |-> a, B |-> b]

\* json2.newCodecRequest: decode the envelope, then test the version.  A body
\* that is not JSON leaves the envelope zero; one with a member of the wrong type
\* fills the other members and fails all the same.
Json2NewRequest(body) ==
    LET zero == [Version |-> "", Method |-> "", Params |-> Nil, Id |-> Nil]
        req == IF IsObject(body)
               THEN [Version |-> StringMember(body.obj, "jsonrpc"),
                     Method |-> StringMember(body.obj, "method"),
                     Params |-> RawMember(body.obj, "params"),
                     Id |-> RawMember(body.obj, "id")]
               ELSE zero
        err1 == IF FitsServerRequest(body) THEN Nil
                ELSE IF IsObject(body) THEN JsonError("E_PARSE", "cannot unmarshal number", req)
                ELSE JsonError("E_PARSE", "invalid character", req)
        err2 == IF req.Version # Version
                THEN JsonError("E_INVALID_REQ", "jsonrpc must be " \o Version, req)
                ELSE err1
    IN  [kind |-> "json2", Request |-> req, Err |-> err2]

\* Codec.NewRequest(r): the codec request, and the heap after the codec has read
\* the body of request rid.
NewRequest(codec, H, rid) ==
    LET body == H[rid].Body
    IN  CASE codec.codec = "MockCodec" ->
               [cr |-> MockCodecRequest(codec.A, codec.B), H |-> H]
          [] codec.codec = "MockCodecJson" ->
               IF body = NoBody THEN [cr |-> MockCodecRequest(0, 0), H |-> H]
               ELSE IF ~IsObject(body)
               THEN [cr |-> MockCodecRequest(0, 0), H |-> [H EXCEPT ![rid].Body = Drained]]
               ELSE [cr |-> MockCodecRequest(IntMember(body.obj, "A"), IntMember(body.obj, "B")),
                     H |-> H]
          [] codec.codec = "json2" ->
               [cr |-> Json2NewRequest(body), H |-> [H EXCEPT ![rid].Body = Drained]]

\* CodecRequest.Method()
Method(cr) ==
    IF cr.kind = "Mock" THEN [method |-> "Service1.Multiply", err |-> Nil]
    ELSE IF cr.Err = Nil THEN [method |-> cr.Request.Method, err |-> Nil]
    ELSE [method |-> "", err |-> cr.Err]

\* new(Service1Request), new(Service1Response)
ZeroArgs == [A |-> 0, B |-> 0]
ZeroReply == [Result |-> 0]

\* json.Unmarshal of a JSON object into *Service1Request: a member sets its
\* field, a field without a member keeps its value.
UnmarshalArgs(o, args) ==
    [A |-> IF "A" \in DOMAIN o THEN o["A"] ELSE args.A,
     B |-> IF "B" \in DOMAIN o THEN o["B"] ELSE args.B]

\* A faulty ReadRequest: a recorded error does not keep it from decoding.
ReadRequestDespiteError(cr, args) ==
    IF cr.kind = "Mock" THEN [args |-> [A |-> cr.A, B |-> cr.B], err |-> Nil, cr |-> cr]
    ELSE IF cr.Request.Params # Nil /\ "obj" \in DOMAIN cr.Request.Params.raw
    THEN [args |-> UnmarshalArgs(cr.Request.Params.raw.obj, args), err |-> cr.Err, cr |-> cr]
    ELSE [args |-> args, err |-> cr.Err, cr |-> cr]

\* CodecRequest.ReadRequest(args): the argument buffer afterwards, the error
\* returned, and the codec request afterwards (a decoding error is kept in Err).
ReadRequest(cr, args) ==
    IF cr.kind = "Mock" THEN [args |-> [A |-> cr.A, B |-> cr.B], err |-> Nil, cr |-> cr]
    ELSE IF cr.Err = Nil /\ cr.Request.Params # Nil
    THEN LET params == cr.Request.Params.raw
             e == JsonError("E_INVALID_REQ", "cannot unmarshal", cr.Request.Params)
         IN  IF "obj" \in DOMAIN params
             THEN [args |-> UnmarshalArgs(params.obj, args), err |-> Nil, cr |-> cr]
             ELSE [args |-> args, err |-> e, cr |-> [cr EXCEPT !.Err = e]]
    ELSE [args |-> args, err |-> cr.Err, cr |-> cr]

\* &ServerResponse{...}
ServerResponse(version, result, error, id) ==
    [Version |-> version, Result |-> result, Error |-> error, Id |-> id]

\* The function a set of <<key, value>> pairs stands for.
FromPairs(ps) == [k \in {p[1] : p \in ps} |-> (CHOOSE p \in ps : p[1] = k)[2]]

\* A faulty encoding: no member is left out, an empty one is written as null.
EncodeServerResponseNoOmit(res) ==
    FromPairs({<<"jsonrpc", [str |-> res.Version]>>,
               <<"id", IF res.Id = Nil THEN JNull ELSE res.Id.raw>>,
               <<"result", IF res.Result = Nil THEN JNull ELSE [value |-> res.Result]>>,
               <<"error", IF res.Error = Nil THEN JNull ELSE [value |-> res.Error]>>})

\* encoder.Encode(res): the members of the JSON object written.  "result" and
\* "error" are omitempty; a nil Id is written as null.
EncodeServerResponse(res) ==
    FromPairs({<<"jsonrpc", [str |-> res.Version]>>,
               <<"id", IF res.Id = Nil THEN JNull ELSE res.Id.raw>>}
              \cup (IF res.Result = Nil THEN {} ELSE {<<"result", [value |-> res.Result]>>})
              \cup (IF res.Error = Nil THEN {} ELSE {<<"error", [value |-> res.Error]>>}))

\* A faulty writeServerResponse: the envelope is written whatever the id.
Json2WriteAlways(cr, w, res) ==
    Write(HeaderSet(w, "Content-Type", "application/json; charset=utf-8"),
          [json |-> EncodeServerResponse(res)])

\* json2's writeServerResponse: nothing is written for a notification.
Json2WriteServerResponse(cr, w, res) ==
    IF cr.Request.Id # Nil
    THEN Write(HeaderSet(w, "Content-Type", "application/json; charset=utf-8"),
               [json |-> EncodeServerResponse(res)])
    ELSE w

\* CodecRequest.WriteResponse(w, reply)
CodecWriteResponse(cr, w, reply) ==
    IF cr.kind = "Mock" THEN Write(w, [itoa |-> reply.Result])
    ELSE Json2WriteServerResponse(cr, w, ServerResponse(Version, reply, Nil, cr.Request.Id))

\* A faulty WriteError: the JSON-RPC codec writes the status it is given.
CodecWriteErrorWithStatus(cr, w, status, err) ==
    IF cr.kind = "Mock" THEN Write(WriteHeader(w, status), [text |-> ErrorText(err)])
    ELSE LET jsonErr == IF IsJsonError(err) THEN err
                        ELSE JsonError("E_SERVER", ErrorText(err), Nil)
         IN  Json2WriteServerResponse(cr, WriteHeader(w, status),
                                      ServerResponse(Version, Nil, jsonErr, cr.Request.Id))

\* A faulty WriteError: the JSON-RPC codec wraps every error.
CodecWriteErrorAlwaysWraps(cr, w, status, err) ==
    IF cr.kind = "Mock" THEN Write(WriteHeader(w, status), [text |-> ErrorText(err)])
    ELSE Json2WriteServerResponse(cr, w,
            ServerResponse(Version, Nil, JsonError("E_SERVER", ErrorText(err), Nil),
                           cr.Request.Id))

\* CodecRequest.WriteError(w, status, err)
CodecWriteError(cr, w, status, err) ==
    IF cr.kind = "Mock" THEN Write(WriteHeader(w, status), [text |-> ErrorText(err)])
    ELSE LET jsonErr == IF IsJsonError(err) THEN err
                        ELSE JsonError("E_SERVER", ErrorText(err), Nil)
         IN  Json2WriteServerResponse(cr, w, ServerResponse(Version, Nil, jsonErr, cr.Request.Id))

-----------------------------------------------------------------------------
(* Hooks and service methods *)

\* The functions the hook slots are filled with.
\*   intercept: one that returns nil, one that returns r2 (TestInterception).
\*   before: one that re-decodes the body of i.Request, sets B to 5 and stores the
\*     result as the request's body (TestBeforeFunc); one that stores another
\*     request in i.Request.
\*   validate: one that accepts zero-valued arguments only (TestValidationFails),
\*     one that accepts everything (TestValidationSuccessful).
\*   after: two that look at the bundle (TestInterception, TestBeforeFunc).
Hook(fn) == [fn |-> fn]
InterceptFuncs == {Hook("returnNil"), Hook("returnR2")}
BeforeFuncs == {Hook("rewriteBody"), Hook("setRequest")}
ValidateFuncs == {Hook("zeroOnly"), Hook("acceptAll")}
AfterFuncs == {Hook("observe"), Hook("record")}

\* &RequestInfo{...}
RequestInfo(request, method, error, statusCode) ==
    [Request |-> request, Method |-> method, Error |-> error, StatusCode |-> statusCode]

\* s.interceptFunc(i): the request returned (nil: keep the original).
CallIntercept(f, i) == IF f.fn = "returnR2" THEN [ptr |-> "r2"] ELSE Nil

\* The body the before hook of TestBeforeFunc leaves: it decodes the body (a
\* failure leaves the zero value), sets B to 5 and marshals.
RewriteBody(body) ==
    Object([A |-> IF IsObject(body) THEN IntMember(body.obj, "A") ELSE 0, B |-> 5])

\* s.beforeFunc(i): the bundle and the heap as the hook leaves them.
CallBefore(f, i, H) ==
    IF f.fn = "rewriteBody"
    THEN [info |-> i, H |-> [H EXCEPT ![i.Request].Body = RewriteBody(H[i.Request].Body)]]
    ELSE [info |-> [i EXCEPT !.Request = "r3"], H |-> H]

ErrZeroOnly == Errorf("this instance only supports zero values")

\* s.validateFunc.Call(requestInfo, args)
CallValidate(f, i, args) ==
    IF f.fn = "zeroOnly" /\ (args.A # 0 \/ args.B # 0) THEN ErrZeroOnly ELSE Nil

ErrResponseError == Errorf("response error")

\* methodSpec.method.Func.Call(rcvr, r, args, reply): the reply buffer afterwards
\* and the error returned.
CallMethod(methodSpec, args, reply) ==
    IF methodSpec.method = "Multiply"
    THEN [reply |-> [Result |-> args.A * args.B], err |-> Nil]
    ELSE [reply |-> reply, err |-> ErrResponseError]

-----------------------------------------------------------------------------
(* Server.ServeHTTP *)

\* A Content-Type header value is the text before the first ";" and what follows:
\* <<"mock", " dummy">> is "mock; dummy", <<"">> an absent header.

\* strings.Index(contentType, ";") and the cut at it.
StripParams(contentType) == contentType[1]

\* strings.ToLower on the content types of the model.
ToLower(str) == IF str = "Mock" THEN "mock" ELSE str

\* A faulty selection: an empty content type falls back on some codec whenever
\* there is one.
SelectCodecAnyDefault(cs, contentType) ==
    IF contentType = "" /\ Cardinality(DOMAIN cs) >= 1
    THEN cs[CHOOSE k \in DOMAIN cs : TRUE]
    ELSE IF ToLower(contentType) \in DOMAIN cs THEN cs[ToLower(contentType)] ELSE Nil

\* The codec for a content type, Nil when there is none.
SelectCodec(cs, contentType) ==
    IF contentType = "" /\ Cardinality(DOMAIN cs) = 1
    THEN cs[CHOOSE k \in DOMAIN cs : TRUE]
    ELSE IF ToLower(contentType) \in DOMAIN cs THEN cs[ToLower(contentType)] ELSE Nil

\* What a call of ServeHTTP did: the steps in order, the response, and the
\* error the method call (or the validation) ended with, if that was reached.
Served(trace, w, reached, errResult) ==
    [trace |-> trace, w |-> w, reached |-> reached, errResult |-> errResult]

\* A faulty encoding step: the reply is written whatever the error, and the
\* error after it.
EncodeBoth(cr, w, reply, statusCode, errResult) ==
    [w |-> IF errResult = Nil THEN CodecWriteResponse(cr, w, reply)
           ELSE CodecWriteError(cr, CodecWriteResponse(cr, w, reply), statusCode, errResult),
     trace |-> <<[ev |-> "WriteResponse", reply |-> reply]>>
               \o IF errResult = Nil THEN << >>
                  ELSE <<[ev |-> "WriteError", status |-> statusCode, err |-> errResult]>>]

\* "Encode the response": WriteResponse for a nil error, WriteError otherwise.
Encode(cr, w, reply, statusCode, errResult) ==
    IF errResult = Nil
    THEN [w |-> CodecWriteResponse(cr, w, reply),
          trace |-> <<[ev |-> "WriteResponse", reply |-> reply]>>]
    ELSE [w |-> CodecWriteError(cr, w, statusCode, errResult),
          trace |-> <<[ev |-> "WriteError", status |-> statusCode, err |-> errResult]>>]

\* A faulty call step: the method is called whatever validation said.
InvokeAlways(serviceSpec, methodSpec, r, H, args, errValue) ==
    LET c == CallMethod(methodSpec, args, ZeroReply)
    IN  [reply |-> c.reply, err |-> IF errValue = Nil THEN c.err ELSE errValue,
         trace |-> <<[ev |-> "call", rcvr |-> serviceSpec.rcvr, method |-> methodSpec.method,
                      req |-> r, body |-> H[r].Body, args |-> args]>>]

\* The call of the target method, made when validation left no error.
Invoke(serviceSpec, methodSpec, r, H, args, errValue) ==
    IF errValue = Nil
    THEN LET c == CallMethod(methodSpec, args, ZeroReply)
         IN  [reply |-> c.reply, err |-> c.err,
              trace |-> <<[ev |-> "call", rcvr |-> serviceSpec.rcvr, method |-> methodSpec.method,
                           req |-> r, body |-> H[r].Body, args |-> args]>>]
    ELSE [reply |-> ZeroReply, err |-> errValue, trace |-> << >>]

\* The validate hook's part: its error, Nil when no hook is registered.
Validate(f, requestInfo, args) ==
    IF f # Nil
    THEN LET e == CallValidate(f, requestInfo, args)
         IN  [err |-> e,
              trace |-> <<[ev |-> "validate", fn |-> f.fn, req |-> requestInfo.Request,
                           args |-> args, err |-> e]>>]
    ELSE [err |-> Nil, trace |-> << >>]

\* A faulty intercept step: the request the hook returns is dropped.
InterceptDropped(f, r, method) ==
    IF f # Nil
    THEN [r |-> r,
          trace |-> <<[ev |-> "intercept", fn |-> f.fn, req |-> r,
                       returned |-> CallIntercept(f, RequestInfo(r, method, Nil, 0))]>>]
    ELSE [r |-> r, trace |-> << >>]

\* The intercept hook's part: the request the rest of the pipeline works with.
Intercept(f, r, method) ==
    IF f # Nil
    THEN LET req == CallIntercept(f, RequestInfo(r, method, Nil, 0))
         IN  [r |-> IF req # Nil THEN req.ptr ELSE r,
              trace |-> <<[ev |-> "intercept", fn |-> f.fn, req |-> r, returned |-> req]>>]
    ELSE [r |-> r, trace |-> << >>]

\* The before hook's part: the bundle and the heap it leaves.
Before(f, requestInfo, H) ==
    IF f # Nil
    THEN LET b == CallBefore(f, requestInfo, H)
         IN  [info |-> b.info, H |-> b.H,
              trace |-> <<[ev |-> "before", fn |-> f.fn, req |-> requestInfo.Request,
                           left |-> b.info.Request]>>]
    ELSE [info |-> requestInfo, H |-> H, trace |-> << >>]

\* A faulty after step: the bundle says success whatever happened.
AfterSaysSuccess(f, r, method, errResult, statusCode) ==
    IF f # Nil
    THEN <<[ev |-> "after", fn |-> f.fn, req |-> r, method |-> method, err |-> Nil,
            status |-> 200]>>
    ELSE << >>

\* The after hook's part.
After(f, r, method, errResult, statusCode) ==
    IF f # Nil
    THEN <<[ev |-> "after", fn |-> f.fn, req |-> r, method |-> method, err |-> errResult,
            status |-> statusCode]>>
    ELSE << >>

\* A faulty pipeline: the before hook runs ahead of the intercept hook.
ServeCallBeforeFirst(srv, cr, serviceSpec, methodSpec, method, args, H, w, trace) ==
    LET b == Before(srv.beforeFunc, RequestInfo("r", method, Nil, 0), H)
        i == Intercept(srv.interceptFunc, "r", method)
        v == Validate(srv.validateFunc, b.info, args)
        c == Invoke(serviceSpec, methodSpec, i.r, b.H, args, v.err)
        errResult == c.err
        statusCode == IF errResult # Nil THEN 400 ELSE 200
        w1 == HeaderSet(w, "x-content-type-options", "nosniff")
        e == Encode(cr, w1, c.reply, statusCode, errResult)
    IN  Served(trace \o b.trace \o i.trace \o v.trace \o c.trace \o <<[ev |-> "nosniff"]>>
                     \o e.trace \o After(srv.afterFunc, i.r, method, errResult, statusCode),
               e.w, TRUE, errResult)

\* ServeHTTP from the intercept hook on (server.go, "Call the registered
\* Intercept Function" to the end).
ServeCall(srv, cr, serviceSpec, methodSpec, method, args, H, w, trace) ==
    LET i == Intercept(srv.interceptFunc, "r", method)
        requestInfo == RequestInfo(i.r, method, Nil, 0)
        b == Before(srv.beforeFunc, requestInfo, H)
        v == Validate(srv.validateFunc, b.info, args)
        c == Invoke(serviceSpec, methodSpec, i.r, b.H, args, v.err)
        errResult == c.err
        statusCode == IF errResult # Nil THEN 400 ELSE 200
        w1 == HeaderSet(w, "x-content-type-options", "nosniff")
        e == Encode(cr, w1, c.reply, statusCode, errResult)
    IN  Served(trace \o i.trace \o b.trace \o v.trace \o c.trace \o <<[ev |-> "nosniff"]>>
                     \o e.trace \o After(srv.afterFunc, i.r, method, errResult, statusCode),
               e.w, TRUE, errResult)

\* A faulty failure path: the codec request is given status 500.
FailStatus500(cr, w, trace, err) ==
    Served(Append(trace, [ev |-> "WriteError", status |-> 500, err |-> err]),
           CodecWriteError(cr, w, 500, err), FALSE, Nil)

\* A failure before the hooks: the codec request writes the error, and ServeHTTP
\* returns.
Fail(cr, w, trace, err) ==
    Served(Append(trace, [ev |-> "WriteError", status |-> 400, err |-> err]),
           CodecWriteError(cr, w, 400, err), FALSE, Nil)

\* ServeHTTP from the codec request on.
ServeCodec(srv, codec, H, w) ==
    LET nr == NewRequest(codec, H, "r")
        codecReq == nr.cr
        m == Method(codecReq)
        t1 == <<[ev |-> "NewRequest", codec |-> codec.codec], [ev |-> "Method"]>>
        g == get(srv.methods, srv.aliases, m.method)
        t2 == Append(t1, [ev |-> "get", method |-> m.method])
        rd == ReadRequest(codecReq, ZeroArgs)
        t3 == Append(t2, [ev |-> "ReadRequest"])
    IN  IF m.err # Nil THEN Fail(codecReq, w, t1, m.err)
        ELSE IF g.err # Nil THEN Fail(codecReq, w, t2, g.err)
        ELSE IF rd.err # Nil THEN Fail(codecReq, w, t3, rd.err)
        ELSE ServeCall(srv, codecReq, g.service, g.serviceMethod, m.method, rd.args, nr.H, w, t3)

\* The Content-Type header as the client wrote it.
HeaderText(contentType) ==
    IF Len(contentType) = 1 THEN contentType[1] ELSE contentType[1] \o ";" \o contentType[2]

\* A faulty ServeHTTP: the 415 message quotes the header with its parameters.
ServeHTTPQuotesHeader(srv, H) ==
    LET r == H["r"]
        w == NewResponseWriter
        contentType == StripParams(r.ContentType)
        codec == SelectCodec(srv.codecs, contentType)
    IN  IF r.Method # "POST"
        THEN Served(<<[ev |-> "WriteErrorPlain", status |-> 405]>>,
                    WriteError(w, 405, "rpc: POST method required, received " \o r.Method),
                    FALSE, Nil)
        ELSE IF codec = Nil
        THEN Served(<<[ev |-> "WriteErrorPlain", status |-> 415]>>,
                    WriteError(w, 415, "rpc: unrecognized Content-Type: "
                                          \o HeaderText(r.ContentType)),
                    FALSE, Nil)
        ELSE ServeCodec(srv, codec, H, w)

\* A faulty ServeHTTP: the codec is looked for before the HTTP method is tested.
ServeHTTPCodecFirst(srv, H) ==
    LET r == H["r"]
        w == NewResponseWriter
        contentType == StripParams(r.ContentType)
        codec == SelectCodec(srv.codecs, contentType)
    IN  IF codec = Nil
        THEN Served(<<[ev |-> "WriteErrorPlain", status |-> 415]>>,
                    WriteError(w, 415, "rpc: unrecognized Content-Type: " \o contentType),
                    FALSE, Nil)
        ELSE IF r.Method # "POST"
        THEN Served(<<[ev |-> "WriteErrorPlain", status |-> 405]>>,
                    WriteError(w, 405, "rpc: POST method required, received " \o r.Method),
                    FALSE, Nil)
        ELSE ServeCodec(srv, codec, H, w)

\* Server.ServeHTTP(w, r), r the request "r" of heap H.
ServeHTTP(srv, H) ==
    LET r == H["r"]
        w == NewResponseWriter
        contentType == StripParams(r.ContentType)
        codec == SelectCodec(srv.codecs, contentType)
    IN  IF r.Method # "POST"
        THEN Served(<<[ev |-> "WriteErrorPlain", status |-> 405]>>,
                    WriteError(w, 405, "rpc: POST method required, received " \o r.Method),
                    FALSE, Nil)
        ELSE IF codec = Nil
        THEN Served(<<[ev |-> "WriteErrorPlain", status |-> 415]>>,
                    WriteError(w, 415, "rpc: unrecognized Content-Type: " \o contentType),
                    FALSE, Nil)
        ELSE ServeCodec(srv, codec, H, w)

\* The server as ServeHTTP reads it.
Server ==
    [methods |-> methods, aliases |-> aliases, codecs |-> codecs,
     interceptFunc |-> interceptFunc, beforeFunc |-> beforeFunc,
     afterFunc |-> afterFunc, validateFunc |-> validateFunc]

-----------------------------------------------------------------------------
(* The server handling requests: codecs and hooks are registered, a service  *)
(* is registered, requests are served one at a time                          *)

\* The codecs registered, each with the content type it is registered under.
CodecRegistrations ==
    {<<MockCodecJson, "Mock">>, <<Json2Codec, "application/json">>}

\* JSON-RPC 2.0 envelopes.
Envelope(version, method, params) ==
    Object([jsonrpc |-> version, method |-> method, params |-> params, id |-> JNum(1)])

\* Notifications: the id is omitted, or null.
Notification(version, method, params) ==
    Object([jsonrpc |-> version, method |-> method, params |-> params])
NullIdEnvelope(version, method, params) ==
    Object([jsonrpc |-> version, method |-> method, params |-> params, id |-> JNull])

\* The bodies requests arrive with.
Bodies ==
    {Garbage,
     Object([A |-> 2, B |-> 10]),
     Envelope("2.0", "Service1.Multiply", JObj([A |-> 4, B |-> 2])),
     Envelope("2.0", "Service1/responseError", JNull),
     Envelope("2.0", "Service1/multiply", JStr("x")),
     Envelope("1.0", "Service1/multiply", JObj([A |-> 4, B |-> 2])),
     Notification("2.0", "Service1/multiply", JObj([A |-> 4, B |-> 2])),
     NullIdEnvelope("2.0", "Service1/responseError", JNull),
     Mistyped([jsonrpc |-> "2.0", id |-> JNum(1)])}

\* The bodies a client of the mock codec sends.
MockBodies == {Garbage, Object([A |-> 2, B |-> 10])}

\* The requests the server is handed: any body without a Content-Type, the
\* bodies of each codec's clients under that codec's content type, a content
\* type no codec is registered for, and requests that are no POST.
Requests ==
    {HTTPRequest("POST", <<"">>, body) : body \in Bodies}
        \cup {HTTPRequest("POST", ct, body) : ct \in {<<"mock", " dummy">>, <<"Mock">>},
                                              body \in MockBodies}
        \cup {HTTPRequest("POST", <<"application/json">>, body) :
                  body \in Bodies \ {Object([A |-> 2, B |-> 10])}}
        \cup {HTTPRequest("POST", <<"invalid">>, Garbage)}
        \cup {HTTPRequest("GET", ct, Garbage) : ct \in {<<"">>, <<"application/json">>}}

\* Server.RegisterCodec(codec, contentType)
RegisterCodec(codec, contentType) ==
    /\ codecs' = (ToLower(contentType) :> codec) @@ codecs
    /\ ret' = [op |-> "RegisterCodec"]
    /\ UNCHANGED <<regVars, hookVars, concVars>>

\* Server.RegisterInterceptFunc(f)
RegisterInterceptFunc(f) ==
    /\ interceptFunc' = f
    /\ ret' = [op |-> "RegisterInterceptFunc", f |-> f]
    /\ UNCHANGED <<regVars, codecs, beforeFunc, afterFunc, validateFunc, concVars>>

\* Server.RegisterBeforeFunc(f)
RegisterBeforeFunc(f) ==
    /\ beforeFunc' = f
    /\ ret' = [op |-> "RegisterBeforeFunc", f |-> f]
    /\ UNCHANGED <<regVars, codecs, interceptFunc, afterFunc, validateFunc, concVars>>

\* A faulty registration: a slot once filled keeps its function.
RegisterValidateRequestFuncOnce(f) ==
    /\ validateFunc' = IF validateFunc = Nil THEN f ELSE validateFunc
    /\ ret' = [op |-> "RegisterValidateRequestFunc", f |-> f]
    /\ UNCHANGED <<regVars, codecs, interceptFunc, beforeFunc, afterFunc, concVars>>

\* Server.RegisterValidateRequestFunc(f)
RegisterValidateRequestFunc(f) ==
    /\ validateFunc' = f
    /\ ret' = [op |-> "RegisterValidateRequestFunc", f |-> f]
    /\ UNCHANGED <<regVars, codecs, interceptFunc, beforeFunc, afterFunc, concVars>>

\* Server.RegisterAfterFunc(f)
RegisterAfterFunc(f) ==
    /\ afterFunc' = f
    /\ ret' = [op |-> "RegisterAfterFunc", f |-> f]
    /\ UNCHANGED <<regVars, codecs, interceptFunc, beforeFunc, validateFunc, concVars>>

\* A faulty ServeHTTP: it files the codec it chose under the content type the
\* request came with.
HandleRequestFilesCodec(r) ==
    /\ ret' = [op |-> "ServeHTTP", r |-> r] @@ ServeHTTP(Server, Heap(r))
    /\ codecs' = LET contentType == StripParams(r.ContentType)
                     codec == SelectCodec(codecs, contentType)
                 IN  IF codec # Nil THEN (ToLower(contentType) :> codec) @@ codecs ELSE codecs
    /\ UNCHANGED <<regVars, hookVars, concVars>>

\* One request handled by Server.ServeHTTP, from its first line to its return.
HandleRequest(r) ==
    /\ ret' = [op |-> "ServeHTTP", r |-> r] @@ ServeHTTP(Server, Heap(r))
    /\ UNCHANGED <<regVars, srvVars, concVars>>

ServeNext ==
    \/ RegisterService("Service1", "")
    \/ RegisterAlias("Service1.Multiply", "Service1/multiply")
    \/ \E c \in CodecRegistrations : RegisterCodec(c[1], c[2])
    \/ \E f \in InterceptFuncs : RegisterInterceptFunc(f)
    \/ \E f \in BeforeFuncs : RegisterBeforeFunc(f)
    \/ \E f \in ValidateFuncs : RegisterValidateRequestFunc(f)
    \/ \E f \in AfterFuncs : RegisterAfterFunc(f)
    \/ \E r \in Requests : HandleRequest(r)
    \/ \E method \in {"Service1.Multiply", "Service1.Missing"} : CallHasMethod(method)

ServeSpec == Init /\ [][ServeNext]_vars

-----------------------------------------------------------------------------
(* The JSON-RPC 2.0 codec request and the compression selector on their own: *)
(* a codec request is made from a body and asked to read its arguments, over *)
(* and again; the selector is given Accept-Encoding headers                  *)

\* The longest Accept-Encoding header, in pieces.
MaxPieces == 3

\* The bodies codec requests are made from: those of the server's requests, an
\* envelope without params and one whose params name one field only.
CodecBodies ==
    Bodies \cup {Object([jsonrpc |-> "2.0", method |-> "Service1/multiply", id |-> JNum(1)]),
                 Envelope("2.0", "Service1/multiply", JObj([A |-> 4]))}

\* The argument buffers ReadRequest is handed.
ArgBuffers == {ZeroArgs, [A |-> 7, B |-> 7]}

\* gzipEncoder, flateEncoder and DefaultEncoder values.
GzipEncoder == [enc |-> "gzipEncoder"]
FlateEncoder == [enc |-> "flateEncoder"]
DefaultEncoder == [enc |-> "DefaultEncoder"]

\* An Accept-Encoding header is a sequence of pieces, its text their
\* concatenation: a piece is a separator (a comma, a space) or a run of other
\* characters.  The empty sequence is the absent header.
Separators == {",", " "}
Pieces == {"gzip", "deflate", "br"} \cup Separators
AcceptHeaders == UNION {[1..n -> Pieces] : n \in 0..MaxPieces}

\* strings.FieldsFunc(encHeader, space or comma): the maximal runs without a
\* separator; `cur` is the run being read.
RECURSIVE FieldsFunc(_, _, _)
FieldsFunc(h, i, cur) ==
    IF i > Len(h) THEN (IF cur = "" THEN << >> ELSE <<cur>>)
    ELSE IF h[i] \in Separators
    THEN (IF cur = "" THEN << >> ELSE <<cur>>) \o FieldsFunc(h, i + 1, "")
    ELSE FieldsFunc(h, i + 1, cur \o h[i])

\* acceptedEnc(req): the first field that is "gzip" or "deflate", "" when there
\* is none.
acceptedEnc(h) ==
    LET encTypes == FieldsFunc(h, 1, "")
        hits == {i \in DOMAIN encTypes : encTypes[i] \in {"gzip", "deflate"}}
    IN  IF h = << >> \/ hits = {} THEN ""
        ELSE encTypes[CHOOSE i \in hits : \A j \in hits : i <= j]

\* CompressionSelector.Select(r)
Select(h) ==
    CASE acceptedEnc(h) = "gzip" -> GzipEncoder
      [] acceptedEnc(h) = "flate" -> FlateEncoder
      [] OTHER -> DefaultEncoder

\* newCodecRequest(r, encoder) on a request with that body
CallNewCodecRequest(body) ==
    /\ ret' = [op |-> "newCodecRequest", body |-> body, cr |-> Json2NewRequest(body)]
    /\ UNCHANGED <<regVars, srvVars, concVars>>

\* c.ReadRequest(args) on the codec request at hand
CallReadRequest(args) ==
    /\ ret.op \in {"newCodecRequest", "ReadRequest"}
    /\ LET rd == ReadRequest(ret.cr, args)
       IN  ret' = [op |-> "ReadRequest", was |-> ret.cr, buf |-> args,
                   cr |-> rd.cr, args |-> rd.args, err |-> rd.err]
    /\ UNCHANGED <<regVars, srvVars, concVars>>

\* selector.Select(r), r with that Accept-Encoding header
CallSelect(h) ==
    /\ ret' = [op |-> "Select", header |-> h, encoder |-> Select(h)]
    /\ UNCHANGED <<regVars, srvVars, concVars>>

FuncNext ==
    \/ \E body \in CodecBodies : CallNewCodecRequest(body)
    \/ \E args \in ArgBuffers : CallReadRequest(args)
    \/ \E h \in AcceptHeaders : CallSelect(h)

FuncSpec == Init /\ [][FuncNext]_vars

-----------------------------------------------------------------------------
(* Goroutines calling into one server at the same time.  A call is followed  *)
(* through the places where it reads or writes the two maps and where it     *)
(* takes and gives back serviceMap.mutex:                                    *)
(*    "check"  registerAlias before its Lock (the two map reads)             *)
(*    "lock"   at m.mutex.Lock(), waiting for the mutex                      *)
(*    "crit"   holding the mutex, at the map access the call makes under it  *)
(*    "store"  RegisterCodec or RegisterAfterFunc before its assignment      *)
(* and a ServeHTTP call through                                              *)
(*    "select" entered, before the codec map is read                         *)
(*    "method" up to codecReq.Method(), before s.services.get                *)
(*    "hooks"  after get: decode, the hooks, the service method              *)
(*    "encode" writing the response, then the after hook                     *)
(*    "return" the after hook has called the server and is back              *)

\* The calls the goroutines make.
ConcCalls ==
    {[op |-> "RegisterService", rcvr |-> "Service1", name |-> ""],
     [op |-> "RegisterMethod", rcvr |-> "Service1", name |-> "Service1.Multiply",
      method |-> "Multiply"],
     [op |-> "RegisterMethod", rcvr |-> "Service1", name |-> "", method |-> "Multiply"],
     [op |-> "RegisterAlias", alias |-> "Service1.Multiply", target |-> "Service1/multiply"],
     [op |-> "RegisterAlias", alias |-> "Service1.Multiply", target |-> "Service1/responseError"],
     [op |-> "HasMethod", method |-> "Service1.Multiply"]}

\* The calls that allocate a service object.
Allocators == {"RegisterService", "RegisterMethod"}

\* What register and registerMethod return before they reach m.mutex.Lock():
\* Nil when the call goes on to the lock.
PreLockError(c) ==
    IF c.op = "RegisterService"
    THEN register(<< >>, 0, c.rcvr, c.name,
                  CHOOSE o \in Orders(registerKeys(c.rcvr, c.name)) : TRUE).err
    ELSE IF c.op = "RegisterMethod"
    THEN registerMethod(<< >>, 0, c.rcvr, c.name, c.method).err
    ELSE Nil

\* A faulty release: the return on a key that is already defined leaves the
\* mutex locked.
UnlockUnlessDefined(p, err) ==
    IF \E k \in DOMAIN methods : err = AlreadyDefined(k) THEN p ELSE Free

\* A faulty release: the mutex is given back only by a call that succeeded.
UnlockOnSuccess(p, err) == IF err = Nil THEN Free ELSE p

\* defer m.mutex.Unlock() of register, registerMethod and registerAlias, and
\* the m.mutex.Unlock() of get: the mutex after the call's critical section.
Unlock(p, err) == Free

\* Goroutine p enters call c (from `cont`, where it goes on after the call).
Enter(p, c, cont) ==
    /\ c.op \in Allocators => nextId < MaxAlloc
    /\ c.op = "RegisterAlias" => Cardinality(DOMAIN aliases) < MaxAliases
    /\ LET err == PreLockError(c)
       IN  IF err # Nil
           THEN /\ procs' = [procs EXCEPT ![p] = [pc |-> cont]]
                /\ ret' = [op |-> c.op, proc |-> p, err |-> err]
                /\ UNCHANGED nextId
           ELSE /\ procs' = [procs EXCEPT ![p] =
                                [pc |-> IF c.op = "RegisterAlias" THEN "check" ELSE "lock",
                                 call |-> c, id |-> nextId + 1, cont |-> cont]]
                /\ nextId' = IF c.op \in Allocators THEN nextId + 1 ELSE nextId
                /\ UNCHANGED ret
    /\ UNCHANGED <<methods, aliases, mutex, srvVars>>

\* A goroutine calls RegisterService, RegisterMethod, RegisterAlias or HasMethod.
Call(p, c) ==
    /\ procs[p] = Idle
    /\ Enter(p, c, "idle")

\* The runtime stops the program: concurrent map read and map write.
Crash ==
    /\ procs' = [p \in Procs |-> [pc |-> "crashed"]]
    /\ mutex' = Free
    /\ ret' = [op |-> "fatal"]
    /\ UNCHANGED <<regVars, srvVars>>

\* Goroutine q holds the mutex and is about to write a map: registerAlias
\* always assigns, registerMethod unless its key is present, register unless
\* all its keys are.
Writing(q) ==
    /\ procs[q].pc = "crit"
    /\ LET c == procs[q].call
       IN  \/ c.op = "RegisterAlias"
           \/ c.op = "RegisterMethod" /\ c.name \notin DOMAIN methods
           \/ c.op = "RegisterService" /\ registerKeys(c.rcvr, c.name) \ DOMAIN methods # {}

\* registerAlias, the part before m.mutex.Lock(): it reads m.methods[target] and
\* m.aliases[alias].  While another goroutine is at its write of a map the reads
\* race with it: the read of the map being written may give anything, or the
\* runtime stops the program.
CheckAlias(p) ==
    /\ procs[p].pc = "check"
    /\ LET c == procs[p].call
           writers == {q \in Procs \ {p} : Writing(q)}
           racingA == \E q \in writers : procs[q].call.op = "RegisterAlias"
           racingM == \E q \in writers : procs[q].call.op # "RegisterAlias"
           Go(found, taken) ==
               LET err == aliasCheck(found, taken, c.alias, c.target)
               IN  /\ procs' = [procs EXCEPT ![p] =
                                   IF err # Nil THEN [pc |-> procs[p].cont]
                                   ELSE [procs[p] EXCEPT !.pc = "lock"]]
                   /\ ret' = [op |-> "RegisterAlias", proc |-> p, access |-> "read",
                              locked |-> (mutex = p), done |-> (err # Nil), err |-> err]
                   /\ UNCHANGED <<regVars, srvVars, mutex>>
       IN  \/ \E found \in IF racingM THEN BOOLEAN ELSE {c.target \in DOMAIN methods},
                 taken \in IF racingA THEN BOOLEAN ELSE {c.alias \in DOMAIN aliases} :
                  Go(found, taken)
           \/ (racingM \/ racingA) /\ Crash

\* m.mutex.Lock()
Lock(p) ==
    /\ procs[p].pc = "lock"
    /\ mutex = Free
    /\ mutex' = p
    /\ procs' = [procs EXCEPT ![p].pc = "crit"]
    /\ UNCHANGED <<regVars, srvVars, ret>>

\* Where a goroutine goes on when its call returns: ServeHTTP returns after
\* writing the error when get found no method.
Return(p, err) ==
    IF procs[p].call.op = "get" /\ err # Nil THEN Idle ELSE [pc |-> procs[p].cont]

\* The part of a call that runs under the mutex, and the deferred Unlock:
\* register's insertion loop, registerMethod's check and insert, registerAlias's
\* insert, get's lookup.
Critical(p) ==
    /\ procs[p].pc = "crit"
    /\ LET c == procs[p].call
           Done(ms, as, access, err) ==
               /\ methods' = ms
               /\ aliases' = as
               /\ mutex' = Unlock(p, err)
               /\ procs' = [procs EXCEPT ![p] = Return(p, err)]
               /\ ret' = [op |-> c.op, proc |-> p, access |-> access,
                          locked |-> (mutex = p), done |-> TRUE, err |-> err]
       IN  CASE c.op = "RegisterService" ->
                   \E order \in Orders(registerKeys(c.rcvr, c.name)) :
                       LET r == register(methods, procs[p].id, c.rcvr, c.name, order)
                       IN  Done(r.methods, aliases, "write", r.err)
             [] c.op = "RegisterMethod" ->
                   LET r == registerMethod(methods, procs[p].id, c.rcvr, c.name, c.method)
                   IN  Done(r.methods, aliases, "write", r.err)
             [] c.op = "RegisterAlias" ->
                   Done(methods, (c.alias :> c.target) @@ aliases, "write", Nil)
             [] OTHER ->
                   Done(methods, aliases, "read", get(methods, aliases, c.method).err)
    /\ UNCHANGED <<nextId, srvVars>>

\* The registrations of a codec and of an after hook the goroutines make.
SlotCalls ==
    {[op |-> "RegisterCodec", codec |-> MockCodecJson, contentType |-> "Mock"],
     [op |-> "RegisterAfterFunc", f |-> Hook("observe")]}

\* A goroutine calls RegisterCodec or RegisterAfterFunc.
SlotCall(p, c) ==
    /\ procs[p] = Idle
    /\ procs' = [procs EXCEPT ![p] = [pc |-> "store", call |-> c]]
    /\ UNCHANGED <<regVars, srvVars, mutex, ret>>

\* The places at which a goroutine is about to read what call c assigns: the
\* codec map is read when ServeHTTP chooses the codec, s.afterFunc on its way
\* out.
Reading(q, c) ==
    \/ c.op = "RegisterCodec" /\ procs[q].pc = "select"
    \/ c.op = "RegisterAfterFunc" /\ procs[q].pc \in {"encode", "return"}

\* s.codecs[strings.ToLower(contentType)] = codec, s.afterFunc = f: the
\* assignment, made without a lock.  With another goroutine at an access of the
\* same field the two race: the assignment lands, or the runtime stops the
\* program (concurrent map writes, concurrent map read and map write).
Store(p) ==
    /\ procs[p].pc = "store"
    /\ LET c == procs[p].call
           read == \E q \in Procs \ {p} : Reading(q, c)
           racing == read \/ \E q \in Procs \ {p} : procs[q].pc = "store" /\ procs[q].call.op = c.op
           Assign ==
               /\ codecs' = IF c.op = "RegisterCodec"
                            THEN (ToLower(c.contentType) :> c.codec) @@ codecs
                            ELSE codecs
               /\ afterFunc' = IF c.op = "RegisterAfterFunc" THEN c.f ELSE afterFunc
               /\ procs' = [procs EXCEPT ![p] = Idle]
               /\ ret' = [op |-> c.op, proc |-> p, raced |-> read]
               /\ UNCHANGED <<regVars, mutex, interceptFunc, beforeFunc, validateFunc>>
       IN  \/ Assign
           \/ racing /\ c.op = "RegisterCodec" /\ Crash

\* ServeHTTP is entered: the HTTP method is tested.
ServeEnter(p) ==
    /\ procs[p] = Idle
    /\ procs' = [procs EXCEPT ![p] = [pc |-> "select"]]
    /\ UNCHANGED <<regVars, srvVars, mutex, ret>>

\* ServeHTTP chooses the codec for a request without Content-Type, reading
\* s.codecs without a lock, and answers 415 when there is none.  With a
\* RegisterCodec at its assignment the read races with it: it may find a codec
\* or none, or the runtime stops the program.
ServeSelect(p) ==
    /\ procs[p].pc = "select"
    /\ LET racing == \E q \in Procs \ {p} :
                         procs[q].pc = "store" /\ procs[q].call.op = "RegisterCodec"
           Go(found) ==
               /\ procs' = [procs EXCEPT ![p] = IF found THEN [pc |-> "method"] ELSE Idle]
               /\ ret' = [op |-> "ServeHTTP", proc |-> p, raced |-> racing,
                          status |-> IF found THEN 0 ELSE 415]
               /\ UNCHANGED <<regVars, srvVars, mutex>>
       IN  IF racing
           THEN \/ \E found \in BOOLEAN : Go(found)
                \/ Crash
           ELSE Go(SelectCodec(codecs, "") # Nil)

\* ServeHTTP calls s.services.get(method).
ServeGet(p, method) ==
    /\ procs[p].pc = "method"
    /\ procs' = [procs EXCEPT ![p] = [pc |-> "lock", call |-> [op |-> "get", method |-> method],
                                      id |-> 0, cont |-> "hooks"]]
    /\ UNCHANGED <<regVars, srvVars, mutex, ret>>

\* A hook or the service method calls back into the server: the intercept,
\* before or validate hook or the method itself from "hooks", the after hook
\* from "encode".
HookCall(p, c) ==
    /\ procs[p].pc \in {"hooks", "encode"}
    /\ Enter(p, c, IF procs[p].pc = "hooks" THEN "encode" ELSE "return")

\* The hooks and the service method return without calling the server.
HooksReturn(p) ==
    /\ procs[p].pc = "hooks"
    /\ procs' = [procs EXCEPT ![p] = [pc |-> "encode"]]
    /\ UNCHANGED <<regVars, srvVars, mutex, ret>>

\* ServeHTTP writes the response, reads s.afterFunc without a lock (the after
\* hook, when it calls the server, has returned at "return") and returns.
ServeReturn(p) ==
    /\ procs[p].pc \in {"encode", "return"}
    /\ procs' = [procs EXCEPT ![p] = Idle]
    /\ ret' = [op |-> "ServeHTTP", proc |-> p,
               raced |-> \E q \in Procs \ {p} :
                            procs[q].pc = "store" /\ procs[q].call.op = "RegisterAfterFunc",
               status |-> 200]
    /\ UNCHANGED <<regVars, srvVars, mutex>>

ConcNext ==
    \/ \E p \in Procs, c \in ConcCalls : Call(p, c)
    \/ \E p \in Procs : CheckAlias(p)
    \/ \E p \in Procs : Lock(p)
    \/ \E p \in Procs : Critical(p)
    \/ \E p \in Procs, c \in SlotCalls : SlotCall(p, c)
    \/ \E p \in Procs : Store(p)
    \/ \E p \in Procs : ServeEnter(p)
    \/ \E p \in Procs : ServeSelect(p)
    \/ \E p \in Procs : ServeGet(p, "Service1.Multiply")
    \/ \E p \in Procs, c \in ConcCalls : HookCall(p, c)
    \/ \E p \in Procs : HooksReturn(p)
    \/ \E p \in Procs : ServeReturn(p)

ConcSpec == Init /\ [][ConcNext]_vars

-----------------------------------------------------------------------------
(* Progress of the calls that take the mutex.  The server starts with Service1 *)
(* and a codec registered, so that registrations collide and requests reach    *)
(* the registry; the goroutines are scheduled fairly, and a goroutine waiting  *)
(* in m.mutex.Lock() is not passed over for ever (sync.Mutex hands the mutex   *)
(* to a starving waiter).                                                      *)

\* s.RegisterCodec(MockCodecJson, "mock"); s.RegisterService(new(Service1), "")
LiveInit ==
    /\ methods = register(<< >>, 1, "Service1", "",
                          CHOOSE o \in Orders(registerKeys("Service1", "")) : TRUE).methods
    /\ aliases = << >>
    /\ nextId = 1
    /\ codecs = ("mock" :> MockCodecJson)
    /\ interceptFunc = Nil
    /\ beforeFunc = Nil
    /\ afterFunc = Nil
    /\ validateFunc = Nil
    /\ ret = [op |-> "RegisterService", rcvr |-> "Service1", name |-> "",
              order |-> CHOOSE o \in Orders(registerKeys("Service1", "")) : TRUE, err |-> Nil]
    /\ mutex = Free
    /\ procs = [p \in Procs |-> Idle]

\* The calls the goroutines make: two registrations that collide, two of one
\* alias, a lookup.
LiveCalls ==
    {[op |-> "RegisterService", rcvr |-> "Service1", name |-> ""],
     [op |-> "RegisterMethod", rcvr |-> "Service1", name |-> "Service1/multiply",
      method |-> "Multiply"],
     [op |-> "RegisterAlias", alias |-> "Service1.Multiply", target |-> "Service1/multiply"],
     [op |-> "RegisterAlias", alias |-> "Service1.Multiply", target |-> "Service1/responseError"],
     [op |-> "HasMethod", method |-> "Service1.Multiply"]}

\* The steps of goroutine p inside a call it has entered.
Proceed(p) ==
    \/ CheckAlias(p)
    \/ Critical(p)
    \/ ServeSelect(p)
    \/ ServeGet(p, "Service1.Multiply")
    \/ \E c \in LiveCalls : HookCall(p, c)
    \/ HooksReturn(p)
    \/ ServeReturn(p)

LiveNext ==
    \/ \E p \in Procs, c \in LiveCalls : Call(p, c)
    \/ \E p \in Procs : ServeEnter(p)
    \/ \E p \in Procs : Lock(p)
    \/ \E p \in Procs : Proceed(p)

LiveSpec ==
    /\ LiveInit
    /\ [][LiveNext]_vars
    /\ \A p \in Procs : WF_vars(Proceed(p)) /\ SF_vars(Lock(p))

-----------------------------------------------------------------------------
(* Properties of the registry *)

\* The name a test or a client writes for method m of service S: "S.M".
DottedName(serviceName, m) == serviceName \o "." \o Str(m.Name)

\* The service name a register(rcvr, name) call files the receiver under.
ServiceNameOf(rcvr, name) == IF name = "" THEN Str(TypeName(rcvr)) ELSE name

\* The methods of the receiver that satisfy the shape contract.
EligibleMethods(rcvr) ==
    {TypeMethods(rcvr)[i] : i \in {j \in DOMAIN TypeMethods(rcvr) :
                                      /\ ShapeError(TypeMethods(rcvr)[j]) = ""
                                      /\ isValidRouteName(TypeMethods(rcvr)[j].Name)}}

\* C1: after RegisterService(receiver, name) has returned nil, HasMethod("S.M")
\* is true for every eligible method M of the receiver, S being name or, for an
\* empty name, the receiver's type name.
C1_HasMethodDotted ==
    (ret.op = "RegisterService" /\ ret.err = Nil) =>
        \A m \in EligibleMethods(ret.rcvr) :
            HasMethod(methods, aliases, DottedName(ServiceNameOf(ret.rcvr, ret.name), m))

\* The keys a registration call, described by its record c, asks the method map
\* to take (none when the call fails before it reaches the map).
CallKeys(c) ==
    IF c.op = "RegisterService"
    THEN IF c.name = "" /\ ~isExported(TypeName(c.rcvr)) THEN {} ELSE registerKeys(c.rcvr, c.name)
    ELSE IF c.op = "RegisterMethod"
    THEN IF c.name = "" \/ MethodByName(c.rcvr, c.method) = Nil THEN {}
         ELSE IF ShapeError(MethodByName(c.rcvr, c.method)) # "" THEN {} ELSE {c.name}
    ELSE {}

\* C7: a register or registerMethod call one of whose keys is already in the
\* method map returns the "service method already defined" error for such a key,
\* and every key bound before the call is bound to the same descriptor after it,
\* get returning for it what it returned before.
C7_CollisionKeepsFirst ==
    [][ LET hit == CallKeys(ret') \cap DOMAIN methods
        IN  hit # {} =>
              /\ ret'.err \in {AlreadyDefined(k) : k \in hit}
              /\ \A k \in DOMAIN methods :
                    /\ k \in DOMAIN methods'
                    /\ methods'[k] = methods[k]
                    /\ get(methods', aliases', k) = get(methods, aliases, k)
      ]_vars

\* A colliding call has just returned its error.
C7_Witness ==
    /\ ret.op \in {"RegisterService", "RegisterMethod"}
    /\ \E k \in DOMAIN methods : ret.err = AlreadyDefined(k)

\* C8: registerAlias(alias, target) fails and leaves the alias map as it was when
\* target is no method key; when it succeeds, get(alias) and get(target) return
\* the same service and method descriptor.
C8_AliasResolvesAsTarget ==
    [][ ret'.op = "RegisterAlias" =>
          IF ret'.target \notin DOMAIN methods
          THEN ret'.err # Nil /\ aliases' = aliases
          ELSE ret'.err = Nil =>
                 get(methods', aliases', ret'.alias) = get(methods', aliases', ret'.target)
      ]_vars

\* C9: no key is both an alias key and a method key.
C9_AliasKeysDisjoint == DOMAIN aliases \cap DOMAIN methods = {}

\* C10: no alias target is an alias key, and get of an alias returns the
\* descriptor the method map holds under the alias's target.
C10_OneLevel ==
    \A a \in DOMAIN aliases :
        /\ aliases[a] \notin DOMAIN aliases
        /\ get(methods, aliases, a).serviceMethod = methods[aliases[a]]


-----------------------------------------------------------------------------
(* Properties of the request pipeline.  They are about the state right after *)
(* a call of ServeHTTP: ret describes the call, and the server's slots are   *)
(* those the call ran with.                                                  *)

JustServed == ret.op = "ServeHTTP"

\* The positions of the trace at which a step of one of the kinds happened.
Steps(kinds) == {i \in DOMAIN ret.trace : ret.trace[i].ev \in kinds}
\* The step of that kind, where there is one.
Step(kind) == ret.trace[CHOOSE i \in Steps({kind}) : TRUE]
Did(kind) == Steps({kind}) # {}

\* C2: a request handled by ServeHTTP gets exactly one response-writing
\* operation (the plain-text WriteError, the codec request's WriteError, or its
\* WriteResponse), and WriteResponse only when the resulting error is nil.
C2_OneWrite ==
    JustServed =>
        /\ Cardinality(Steps({"WriteErrorPlain", "WriteError", "WriteResponse"})) = 1
        /\ Did("WriteResponse") => (ret.reached /\ ret.errResult = Nil)

\* A request whose method (or validation) returned an error has been answered.
C2_Witness == JustServed /\ ret.reached /\ ret.errResult # Nil /\ Did("WriteError")

\* C3: when the validate hook returns an error, the target method is not called
\* and that error goes to the codec request's WriteError with status 400; when
\* it returns nil, the method is called exactly once.
C3_ValidateGuardsCall ==
    (JustServed /\ Did("validate")) =>
        IF Step("validate").err # Nil
        THEN /\ ~Did("call")
             /\ ~Did("WriteResponse")
             /\ Did("WriteError")
             /\ Step("WriteError").status = 400
             /\ Step("WriteError").err = Step("validate").err
        ELSE Cardinality(Steps({"call"})) = 1

\* The validate hook has rejected a request.
C3_Witness == JustServed /\ Did("validate") /\ Step("validate").err = ErrZeroOnly

\* The codec ServeHTTP chose for the request just served.
ChosenCodec == SelectCodec(codecs, StripParams(ret.r.ContentType))

\* The arguments codec decodes from a request with that body.
DecodedArgs(codec, body) ==
    ReadRequest(NewRequest(codec, Heap(HTTPRequest("POST", <<"">>, body)), "r").cr, ZeroArgs).args

\* C4: when the before hook has rewritten the request body, the target method is
\* called with the arguments of the rewritten body.
C4_BeforeRewriteReachesMethod ==
    (JustServed /\ beforeFunc = Hook("rewriteBody") /\ Did("before") /\ Did("call")) =>
        Step("call").args = DecodedArgs(ChosenCodec, Step("call").body)

\* C5: when the intercept hook returns a request whose body differs from the
\* original's, the target method is called with the arguments decoded from the
\* replacement's body.
C5_InterceptBodyReachesMethod ==
    (/\ JustServed
     /\ Did("intercept")
     /\ Did("call")
     /\ Step("intercept").returned # Nil
     /\ Heap(ret.r)[Step("intercept").returned.ptr].Body # ret.r.Body) =>
        Step("call").args =
            DecodedArgs(ChosenCodec, Heap(ret.r)[Step("intercept").returned.ptr].Body)

\* The request the steps after the intercept hook are to work with: the one the
\* hook returned, the original when it returned nil or no hook is registered.
RequestAfterIntercept ==
    IF Did("intercept") /\ Step("intercept").returned # Nil
    THEN Step("intercept").returned.ptr
    ELSE "r"

\* C6 as stated: the before hook, the validate hook, the target method and the
\* after hook all receive the request the intercept hook returned (the original
\* when it returned nil or is not registered).
C6_AllStepsSeeInterceptedRequest ==
    JustServed =>
        \A i \in Steps({"before", "validate", "call", "after"}) :
            ret.trace[i].req = RequestAfterIntercept

\* C6 amended: the before hook, the target method and the after hook receive
\* that request; the validate hook receives the bundle the before hook was
\* given, whose Request is that request unless the before hook stored another.
C6_StepsSeeInterceptedRequest ==
    JustServed =>
        /\ \A i \in Steps({"before", "call", "after"}) : ret.trace[i].req = RequestAfterIntercept
        /\ Did("validate") =>
              Step("validate").req =
                  IF Did("before") THEN Step("before").left ELSE RequestAfterIntercept

\* The intercept hook returned r2 and every later step ran.
C6_Witness ==
    /\ JustServed
    /\ Did("intercept")
    /\ Step("intercept").returned = [ptr |-> "r2"]
    /\ Did("before") /\ Did("validate") /\ Did("call") /\ Did("after")
    /\ Step("call").req = "r2"

\* The Content-Type of the request just served, cut at the first ";".
Stripped == StripParams(ret.r.ContentType)

\* The steps of a call that involve a codec, the registry, a hook or a method.
PipelineSteps ==
    Steps({"NewRequest", "Method", "get", "ReadRequest", "intercept", "before",
           "validate", "call", "WriteResponse", "WriteError", "after"})

CodecRequestOf == NewRequest(ChosenCodec, Heap(ret.r), "r").cr

\* The error that ends the pipeline before the hooks: that of Method(), of the
\* registry lookup or of ReadRequest, in this order; Nil when all three succeed.
EarlyError ==
    LET m == Method(CodecRequestOf)
        g == get(methods, aliases, m.method)
        rd == ReadRequest(CodecRequestOf, ZeroArgs)
    IN  IF m.err # Nil THEN m.err ELSE IF g.err # Nil THEN g.err ELSE rd.err

\* The early failure is handed to the codec request's WriteError with status
\* 400, and nothing else of the pipeline runs.
EarlyErrorWritten ==
    /\ Cardinality(Steps({"WriteError"})) = 1
    /\ Step("WriteError").status = 400
    /\ Step("WriteError").err = EarlyError
    /\ Steps({"intercept", "before", "validate", "call", "WriteResponse", "after"}) = {}

Json2Served == JustServed /\ Did("NewRequest") /\ Step("NewRequest").codec = "json2"

\* The id of the request just served: null when the body has none.
RequestId ==
    IF IsObject(ret.r.Body) /\ "id" \in DOMAIN ret.r.Body.obj
    THEN ret.r.Body.obj["id"]
    ELSE JNull

Envelopes == {ret.w.Body[i].json : i \in {j \in DOMAIN ret.w.Body : "json" \in DOMAIN ret.w.Body[j]}}

\* C17: every JSON-RPC 2.0 envelope written has version "2.0", the id of the
\* request, and exactly one of result and error: result from WriteResponse,
\* error from WriteError.
C17_EnvelopeShape ==
    JustServed =>
        \A e \in Envelopes :
            /\ e["jsonrpc"] = JStr("2.0")
            /\ e["id"] = RequestId
            /\ ("result" \in DOMAIN e) # ("error" \in DOMAIN e)
            /\ Did("WriteResponse") => "result" \in DOMAIN e
            /\ Did("WriteError") => "error" \in DOMAIN e

\* An error envelope has been written.
C17_Witness ==
    /\ Json2Served
    /\ Did("WriteError")
    /\ \E e \in Envelopes : "error" \in DOMAIN e /\ e["id"] = JNum(1)

C19_WriteErrorForwardsOrWraps ==
    (Json2Served /\ RequestId # JNull /\ Did("WriteError")) =>
        LET err == Step("WriteError").err
        IN  \E e \in Envelopes :
              /\ "error" \in DOMAIN e
              /\ e["error"] = [value |-> IF IsJsonError(err) THEN err
                                         ELSE JsonError("E_SERVER", ErrorText(err), Nil)]

\* A structured error has been written.
C19_Witness ==
    /\ Json2Served
    /\ RequestId # JNull
    /\ Did("WriteError")
    /\ IsJsonError(Step("WriteError").err)
    /\ Step("WriteError").err.Data # Nil
    /\ Envelopes # {}

\* C20: JSON-RPC 2.0 decoding records the Parse Error code for a body that
\* fails to parse and the Invalid Request code for one whose jsonrpc member is
\* not "2.0"; Method() then returns the recorded error and no method name;
\* otherwise it returns the method of the body and no error.
C20_DecodeErrorCodes ==
    Json2Served =>
        IF ~FitsServerRequest(ret.r.Body)
        THEN /\ ~Did("get")
             /\ Did("WriteError")
             /\ IsJsonError(Step("WriteError").err)
             /\ Step("WriteError").err.Code = "E_PARSE"
        ELSE IF StringMember(ret.r.Body.obj, "jsonrpc") # "2.0"
        THEN /\ ~Did("get")
             /\ Did("WriteError")
             /\ IsJsonError(Step("WriteError").err)
             /\ Step("WriteError").err.Code = "E_INVALID_REQ"
        ELSE /\ Did("get")
             /\ Step("get").method = StringMember(ret.r.Body.obj, "method")

\* C22: a registered after hook is called exactly once for every request
\* ServeHTTP handles, those refused with 405 or 415 and those that fail at the
\* method name, the lookup or the argument decoding included.
C22_AfterEveryRequest ==
    (JustServed /\ afterFunc # Nil) => Cardinality(Steps({"after"})) = 1

\* The response the encoding step of the request just served leaves, computed
\* from what the step was given.
EncodedResponse ==
    LET w1 == HeaderSet(NewResponseWriter, "x-content-type-options", "nosniff")
    IN  IF Did("WriteResponse")
        THEN CodecWriteResponse(CodecRequestOf, w1, Step("WriteResponse").reply)
        ELSE CodecWriteError(CodecRequestOf, w1, Step("WriteError").status,
                             Step("WriteError").err)

\* C23: when the after hook is invoked, the response has been encoded already;
\* the bundle holds the method name the request was dispatched by, the error that
\* was encoded (nil on success) and status 200 exactly when that error is nil,
\* 400 otherwise; the response stays as the encoding step left it.
C23_AfterBundle ==
    (JustServed /\ Did("after")) =>
        LET a == Step("after")
            encoded == IF Did("WriteError") THEN Step("WriteError").err ELSE Nil
        IN  /\ Cardinality(Steps({"WriteResponse", "WriteError"})) = 1
            /\ \A i \in Steps({"WriteResponse", "WriteError"}), j \in Steps({"after"}) : i < j
            /\ a.method = Step("get").method
            /\ a.err = encoded
            /\ a.status = IF encoded = Nil THEN 200 ELSE 400
            /\ ret.w = EncodedResponse

\* The after hook has been told of a method's error.
C23_Witness ==
    /\ JustServed
    /\ Did("after")
    /\ Did("call")
    /\ Step("after").err = ErrResponseError
    /\ Step("after").status = 400

\* The steps of the kinds in the trace of call record c.
StepsOf(c, kinds) == {i \in DOMAIN c.trace : c.trace[i].ev \in kinds}

\* The slot of a hook phase.
Slot(kind) ==
    CASE kind = "intercept" -> interceptFunc
      [] kind = "before" -> beforeFunc
      [] kind = "validate" -> validateFunc
      [] kind = "after" -> afterFunc

\* The registration call of a hook phase.
RegisterOp(kind) ==
    CASE kind = "intercept" -> "RegisterInterceptFunc"
      [] kind = "before" -> "RegisterBeforeFunc"
      [] kind = "validate" -> "RegisterValidateRequestFunc"
      [] kind = "after" -> "RegisterAfterFunc"

\* C28: each hook phase has one slot: a registration puts its function in the
\* slot of its phase, nothing else changes a slot, and a request calls for each
\* phase the function in the slot, at most once, and no other.
C28_SingleSlot ==
    [][ /\ \A kind \in {"intercept", "before", "validate", "after"} :
              /\ ret'.op = RegisterOp(kind) => Slot(kind)' = ret'.f
              /\ ret'.op # RegisterOp(kind) => Slot(kind)' = Slot(kind)
              /\ ret'.op = "ServeHTTP" =>
                    /\ Cardinality(StepsOf(ret', {kind})) <= 1
                    /\ \A i \in StepsOf(ret', {kind}) :
                          Slot(kind) # Nil /\ ret'.trace[i].fn = Slot(kind).fn
      ]_vars

\* A request has gone through all four hooks, the validate hook being the
\* second of the two the model registers.
C28_Witness ==
    /\ JustServed
    /\ Did("intercept") /\ Did("before") /\ Did("validate") /\ Did("after")
    /\ Step("validate").fn = "acceptAll"
    /\ Step("intercept").fn = "returnR2"

\* C21: JSON-RPC 2.0 ReadRequest returns a recorded error and leaves the buffer
\* as it was; with no recorded error and no params it returns nil and leaves the
\* buffer as it was; with params it unmarshals them into the buffer, and params
\* that do not fit are recorded and returned as an Invalid Request error whose
\* data is the raw params.
C21_ReadRequest ==
    ret.op = "ReadRequest" =>
        IF ret.was.Err # Nil
        THEN ret.err = ret.was.Err /\ ret.args = ret.buf /\ ret.cr = ret.was
        ELSE IF ret.was.Request.Params = Nil
        THEN ret.err = Nil /\ ret.args = ret.buf /\ ret.cr = ret.was
        ELSE IF "obj" \in DOMAIN ret.was.Request.Params.raw
        THEN /\ ret.err = Nil
             /\ ret.args = UnmarshalArgs(ret.was.Request.Params.raw.obj, ret.buf)
        ELSE /\ IsJsonError(ret.err)
             /\ ret.err.Code = "E_INVALID_REQ"
             /\ ret.err.Data = ret.was.Request.Params
             /\ ret.cr.Err = ret.err

\* A second ReadRequest has returned the error the first one recorded, and has
\* left a buffer that is not zero alone.
C21_Witness ==
    /\ ret.op = "ReadRequest"
    /\ ret.was.Err # Nil
    /\ ret.was.Request.Params # Nil
    /\ ret.was.Err.Data = ret.was.Request.Params
    /\ ret.buf = [A |-> 7, B |-> 7]
    /\ ret.args = ret.buf

\* The fields of the header given to Select.
HeaderFields == FieldsFunc(ret.header, 1, "")

\* C27: the selector returns the gzip encoder when the first of the tokens gzip
\* and deflate in Accept-Encoding is gzip, the deflate encoder when it is
\* deflate, and the identity encoder when neither occurs or the header is empty.
C27_SelectFirstKnown ==
    ret.op = "Select" =>
        LET known == {i \in DOMAIN HeaderFields : HeaderFields[i] \in {"gzip", "deflate"}}
        IN  IF known = {} THEN ret.encoder = DefaultEncoder
            ELSE LET first == CHOOSE i \in known : \A j \in known : i <= j
                 IN  IF HeaderFields[first] = "gzip" THEN ret.encoder = GzipEncoder
                     ELSE ret.encoder = FlateEncoder

\* C29: registerMethod(receiver, key, methodName) fails and leaves the registry
\* as it was when key is empty, the receiver has no such method, the method does
\* not have the shape, or key is a method key already; otherwise it adds one
\* entry, under key as given, and changes no other.
C29_RegisterMethod ==
    [][ ret'.op = "RegisterMethod" =>
          LET m == MethodByName(ret'.rcvr, ret'.method)
              refused == \/ ret'.name = ""
                         \/ m = Nil
                         \/ ShapeError(m) # ""
                         \/ ret'.name \in DOMAIN methods
          IN  IF refused
              THEN ret'.err # Nil /\ methods' = methods /\ aliases' = aliases
              ELSE /\ ret'.err = Nil
                   /\ DOMAIN methods' = DOMAIN methods \cup {ret'.name}
                   /\ \A k \in DOMAIN methods : methods'[k] = methods[k]
                   /\ methods'[ret'.name].method = ret'.method
                   /\ methods'[ret'.name].service.rcvr = ret'.rcvr
                   /\ aliases' = aliases
      ]_vars

\* registerMethod has added its key to a registry that held others.
C29_Witness ==
    /\ ret.op = "RegisterMethod"
    /\ ret.err = Nil
    /\ ret.name \in DOMAIN methods
    /\ Cardinality(DOMAIN methods) > 1

\* The identifiers service names are spelt with.
ServiceIds == ServiceNameIds \cup {TypeName(rcvr) : rcvr \in Receivers}

-----------------------------------------------------------------------------
(* Properties of the registry under concurrent calls *)

\* C24: every read and every write of the method map and the alias map made
\* by register, registerMethod, registerAlias and get happens while the
\* goroutine making it holds the registry mutex.  (registerAlias reads both
\* maps before it locks.)
C24_AccessUnderMutex ==
    "locked" \in DOMAIN ret => ret.locked

\* The places of ServeHTTP outside s.services.get.
ServePlaces == {"select", "method", "hooks", "encode", "return"}

\* C25: the registry mutex is not held by a goroutine that is in ServeHTTP's
\* decoding, hooks, service method or encoding; a goroutine that reaches
\* m.mutex.Lock() (from a hook as well) does not hold the mutex already, and
\* whoever holds the mutex is at the map access that ends with the Unlock: no
\* call waits for a mutex that is never given back.
C25_MutexNotHeldOutsideGet ==
    /\ \A p \in Procs :
          /\ procs[p].pc \in ServePlaces => mutex # p
          /\ procs[p].pc = "lock" => mutex # p
    /\ mutex # Free => procs[mutex].pc = "crit"

\* A hook has called RegisterAlias on the server it runs in, and the call has
\* taken the mutex, written the alias and returned into ServeHTTP.
C25_Witness ==
    /\ ret.op = "RegisterAlias"
    /\ "access" \in DOMAIN ret
    /\ ret.access = "write"
    /\ procs[ret.proc].pc \in {"encode", "return"}
    /\ mutex = Free

\* C26: the registry only grows: in every step, a method key that is bound
\* stays bound to the same descriptor and an alias key that is bound stays bound
\* to the same target.  (Two RegisterAlias calls of one alias that both pass
\* the unlocked check both write it.)
C26_OnlyGrows ==
    [][/\ \A k \in DOMAIN methods : k \in DOMAIN methods' /\ methods'[k] = methods[k]
       /\ \A a \in DOMAIN aliases : a \in DOMAIN aliases' /\ aliases'[a] = aliases[a]]_vars


-----------------------------------------------------------------------------
(* Properties of register's failures and of lookups *)

\* The errors register returns before it reaches the maps.
NotExported(rcvr) == Errorf("rpc: type \"" \o Str(TypeName(rcvr)) \o "\" is not exported")
NoServiceName(rcvr) == Errorf("rpc: no service name for type \"*" \o Str(TypeName(rcvr)) \o "\"")
NoMethods(rcvr, name) ==
    Errorf("rpc: \"" \o ServiceNameOf(rcvr, name) \o "\" has no exported methods of suitable type")

\* C31: a register call whose inferred service name is not exported, whose
\* service name is empty or whose receiver has no eligible method returns the
\* error of that case, and a register call that returns one of these errors
\* leaves the method map and the alias map as they were.
C31_FailedRegisterFrame ==
    [][ ret'.op = "RegisterService" =>
          /\ (ret'.name = "" /\ ~isExported(TypeName(ret'.rcvr))) => ret'.err = NotExported(ret'.rcvr)
          /\ (ServiceNameOf(ret'.rcvr, ret'.name) = "") =>
                 ret'.err \in {NotExported(ret'.rcvr), NoServiceName(ret'.rcvr)}
          /\ (~(ret'.name = "" /\ ~isExported(TypeName(ret'.rcvr)))
                /\ registerKeys(ret'.rcvr, ret'.name) = {}) => ret'.err = NoMethods(ret'.rcvr, ret'.name)
          /\ ret'.err \in {NotExported(ret'.rcvr), NoServiceName(ret'.rcvr),
                           NoMethods(ret'.rcvr, ret'.name)} =>
                 methods' = methods /\ aliases' = aliases
      ]_vars

\* A register call has failed for want of eligible methods on a registry that
\* holds methods and an alias.
C31_Witness ==
    /\ ret.op = "RegisterService"
    /\ ret.err = NoMethods(ret.rcvr, ret.name)
    /\ methods # << >>
    /\ aliases # << >>


\* The place of a step in the order ServeHTTP takes its steps in.
Rank(kind) ==
    CASE kind = "NewRequest" -> 1
      [] kind = "Method" -> 2
      [] kind = "get" -> 3
      [] kind = "ReadRequest" -> 4
      [] kind = "intercept" -> 5
      [] kind = "before" -> 6
      [] kind = "validate" -> 7
      [] kind = "call" -> 8
      [] kind = "nosniff" -> 9
      [] kind \in {"WriteResponse", "WriteError"} -> 10
      [] kind = "after" -> 11
      [] OTHER -> 0

\* C32: for a request that reaches the method invocation the steps happen in
\* the order NewRequest, Method, get, ReadRequest, intercept hook, before hook,
\* validate hook, target method, nosniff header, WriteResponse or WriteError,
\* after hook: each at most once, none before one that precedes it in the list,
\* the hooks' steps exactly when a hook is registered.
C32_StepOrder ==
    (JustServed /\ Did("call")) =>
        /\ \A i, j \in DOMAIN ret.trace :
              i < j => 0 < Rank(ret.trace[i].ev) /\ Rank(ret.trace[i].ev) < Rank(ret.trace[j].ev)
        /\ \A kind \in {"NewRequest", "Method", "get", "ReadRequest", "nosniff"} : Did(kind)
        /\ Did("WriteResponse") \/ Did("WriteError")
        /\ Did("intercept") <=> interceptFunc # Nil
        /\ Did("before") <=> beforeFunc # Nil
        /\ Did("validate") <=> validateFunc # Nil
        /\ Did("after") <=> afterFunc # Nil

\* A request has gone through every step of the list, all four hooks included.
C32_Witness ==
    /\ JustServed
    /\ Len(ret.trace) = 11
    /\ \A kind \in {"intercept", "before", "validate", "call", "nosniff", "after"} : Did(kind)


\* C33: a register call that reaches its insertion loop and finds one of its
\* keys present returns the already-defined error for the first such key of its
\* iteration; the keys it visited before that one are registered, bound to the
\* service of this call, the keys after it are not registered by the call, and
\* every entry present before the call is unchanged.
C33_PartialInsertion ==
    [][ (ret'.op = "RegisterService" /\ CallKeys(ret') \cap DOMAIN methods # {}) =>
          LET order == ret'.order
              hit == {j \in DOMAIN order : order[j] \in DOMAIN methods}
              first == CHOOSE j \in hit : \A h \in hit : j <= h
          IN  /\ ret'.err = AlreadyDefined(order[first])
              /\ DOMAIN methods' = DOMAIN methods \cup {order[j] : j \in 1..(first - 1)}
              /\ \A j \in 1..(first - 1) :
                    /\ methods'[order[j]].service.rcvr = ret'.rcvr
                    /\ methods'[order[j]].service.name = ServiceNameOf(ret'.rcvr, ret'.name)
              /\ \A k \in DOMAIN methods : methods'[k] = methods[k]
              /\ aliases' = aliases
      ]_vars

\* A register call has returned the already-defined error for one of its keys
\* and has left another of its keys registered.
C33_Witness ==
    /\ ret.op = "RegisterService"
    /\ \E k \in DOMAIN methods :
          /\ ret.err = AlreadyDefined(k)
          /\ methods[k].service.rcvr # ret.rcvr
          /\ \E k2 \in registerKeys(ret.rcvr, ret.name) \ {k} :
                /\ k2 \in DOMAIN methods
                /\ methods[k2].service.rcvr = ret.rcvr
                /\ methods[k2].service.id # methods[k].service.id


\* The key get looks up in the method map for a name.
Resolved(key) == IF key \in DOMAIN aliases THEN aliases[key] ELSE key

\* C34: get(key) returns the descriptor stored under aliases[key] when key is an
\* alias key and the descriptor stored under key otherwise; it returns a
\* not-found error exactly when that resolved key is no method key; HasMethod(key)
\* is true exactly when get(key) returns no error.
C34_GetResolves ==
    /\ \A key \in LookupNames :
          LET g == get(methods, aliases, key)
          IN  /\ g.err # Nil <=> Resolved(key) \notin DOMAIN methods
              /\ g.err # Nil =>
                    g.err = Errorf("rpc: can't find service method \"" \o Resolved(key) \o "\"")
              /\ g.err = Nil =>
                    /\ g.serviceMethod = methods[Resolved(key)]
                    /\ g.service = methods[Resolved(key)].service
              /\ HasMethod(methods, aliases, key) <=> g.err = Nil
    /\ ret.op = "HasMethod" => (ret.has <=> Resolved(ret.method) \in DOMAIN methods)

\* HasMethod has been asked for a name that is an alias key and a method key
\* at once, bound to different descriptors, and has answered for the alias.
C34_Witness ==
    /\ ret.op = "HasMethod"
    /\ ret.has
    /\ ret.method \in DOMAIN aliases \cap DOMAIN methods
    /\ methods[aliases[ret.method]] # methods[ret.method]


\* C35: get, HasMethod and ServeHTTP write neither map of the registry, nor the
\* codec map, nor a hook slot: a lookup or a served request leaves all of them
\* as they were, and with them the result of every lookup.
C35_LookupsWriteNothing ==
    [][ ret'.op \in {"ServeHTTP", "HasMethod"} =>
          /\ methods' = methods
          /\ aliases' = aliases
          /\ codecs' = codecs
          /\ <<interceptFunc', beforeFunc', validateFunc', afterFunc'>>
                = <<interceptFunc, beforeFunc, validateFunc, afterFunc>>
          /\ \A key \in LookupNames :
                get(methods', aliases', key) = get(methods, aliases, key)
      ]_vars

\* A request has been served through its method and all four hooks by a server
\* that holds methods, an alias and a codec, and HasMethod still finds the alias.
C35_Witness ==
    /\ JustServed
    /\ ret.reached
    /\ aliases # << >>
    /\ codecs # << >>
    /\ interceptFunc # Nil /\ beforeFunc # Nil /\ validateFunc # Nil /\ afterFunc # Nil
    /\ HasMethod(methods, aliases, "Service1.Multiply")


\* C36: no request handled by ServeHTTP reads the codec map or a hook slot
\* while a concurrent registration call writes it without synchronization:
\* ServeHTTP never reads the codec map or the after slot with another goroutine
\* at its assignment, and no assignment is made with another goroutine at
\* ServeHTTP's read of the same field.
C36_OnlyRegistryShared ==
    "raced" \in DOMAIN ret => ~ret.raced


-----------------------------------------------------------------------------
(* Progress *)

\* Goroutine p is inside register, registerMethod, registerAlias or get.
InRegistry(p) == procs[p].pc \in {"check", "lock", "crit"}

\* The runtime has stopped the program.
Stopped == \A p \in Procs : procs[p].pc = "crashed"

\* C38: every acquisition of the registry mutex is followed by its release,
\* on the collision error paths too, so that under fair scheduling a goroutine
\* waiting for the mutex gets it, every registry operation returns and every
\* request returns (unless the runtime stops the whole program).
C38_MutexReleased ==
    \A p \in Procs :
        /\ (mutex = p) ~> (mutex # p)
        /\ (procs[p].pc = "lock") ~> (mutex = p \/ Stopped)
        /\ InRegistry(p) ~> ~InRegistry(p)
        /\ (procs[p].pc \in ServePlaces) ~> (procs[p] = Idle \/ Stopped)

\* A registration has taken the mutex, met a key that is present and returned
\* the already-defined error, and the mutex is free again.
C38_Witness ==
    /\ "locked" \in DOMAIN ret
    /\ ret.op \in {"RegisterService", "RegisterMethod"}
    /\ ret.locked
    /\ \E k \in DOMAIN methods : ret.err = AlreadyDefined(k)
    /\ mutex = Free
    /\ \E p \in Procs : procs[p].pc = "lock"

=============================================================================
